---- MODULE Spec2Model ----
(***************************************************************************)
(* Model of the record-flow enrichment pipeline                            *)
(* (record-flow/src/process_flow.py and its collaborators).                *)
(*                                                                         *)
(* Two specifications are given over one set of variables:                 *)
(*   Spec        the worker pool of main(): startup, process_and_write on  *)
(*               several threads, the output writer, the checkpoint, a     *)
(*               process-level interrupt and a later invocation;           *)
(*   SpecRecord  one call of process_and_write on one record, with the     *)
(*               record's payloads and the collaborators' outcomes kept in *)
(*               the state.                                                *)
(* Both use the same operator process_record for the stage sequence.       *)
(***************************************************************************)
EXTENDS Integers, Sequences, FiniteSets, TLC

\* ------------------------------------------------------------------ bounds
\* Number of decodable lines of the input file (indexes 0 .. NumRecords-1).
NumRecords == 2
\* Value of --workers: threads of the ThreadPoolExecutor.
NumWorkers == 2
\* Number of invocations of main() that the model follows.
MaxRuns == 2
\* Largest token count one collaborator call reports.
MaxTokens == 1
\* Number of threads, each with its own WebsiteScraper, that crawl the same
\* domain.
NumCrawlers == 2
MaxPhotos == 1
MaxFaults == 1

Workers == 1 .. NumWorkers
Indexes == 0 .. (NumRecords - 1)

\* ------------------------------------------------------- records and stages
\* A record as process_record sees it.  shape: whether the decoded JSON line
\* is an object; web: contact.website of the input; gd: google_data
\* ("absent", the "NOT_FOUND" marker, or a "place"); bs and gweb: the
\* place's business_status and contact.website; gs, sd, fr: the payloads
\* gemini_search_data, scraped_data and finalized_record.
BusinessStatuses == {"OPERATIONAL", "CLOSED_TEMPORARILY", "CLOSED_PERMANENTLY", "none"}

\* An input line carries no google_data, the NOT_FOUND marker, or the place
\* data of an earlier enrichment.
\* A line that decodes to something other than an object has no fields.
InputRecords ==
    [shape : {"dict"}, web : BOOLEAN, gd : {"absent", "NOT_FOUND"},
     bs : {"none"}, gweb : {FALSE}, gs : {"absent"}, sd : {"absent"}, fr : {"absent"}]
    \cup
    [shape : {"dict"}, web : BOOLEAN, gd : {"place"},
     bs : BusinessStatuses, gweb : BOOLEAN, gs : {"absent"}, sd : {"absent"},
     fr : {"absent"}]
    \cup
    {[shape |-> "nondict", web |-> FALSE, gd |-> "absent", bs |-> "none",
      gweb |-> FALSE, gs |-> "absent", sd |-> "absent", fr |-> "absent"]}

\* What the collaborators answer for one record.  fe: find_and_enrich
\* ("match": a validated place with status bs and website gweb; "no_data":
\* the record is returned without google_data; "none": None is returned;
\* "raise": an exception leaves the call).  research, final: the two Gemini
\* calls ("error": the call failed on each of its attempts; "parse_fail":
\* the response could not be parsed; "no_client": no API key, the call is
\* skipped).  scrape: the crawl and the refinement that follows it, as the
\* try block of process_record sees them: "raise" (an exception), "assets"
\* (a manifest with assets, refined), "no_assets" (a manifest without).
\* process_record calls scraper.scrape(target_url, record_id=record_id);
\* WebsiteScraper.scrape(self, url) of scraping/scraper.py takes no
\* record_id, so with that class the call raises TypeError for every URL
\* and the outcome is always "raise".  "assets" and "no_assets" are what
\* scrape_async returns, and what process_record does with them is modelled
\* for a scraper object whose scrape accepts the keyword.
Envs ==
    [fe : {"match", "no_data", "none", "raise"},
     bs : BusinessStatuses, gweb : BOOLEAN,
     research : {"ok", "parse_fail", "error", "no_client"},
     scrape : {"assets", "no_assets", "raise"},
     final : {"ok", "parse_fail", "error", "no_client"}]

\* find_and_enrich: the record unchanged when it already carries google_data
\* or when nothing could be looked up, the record with the place's data on a
\* validated match, and None on every NOT_FOUND path.
find_and_enrich(record, e) ==
    IF record.gd # "absent" THEN [tag |-> "record", rec |-> record]
    ELSE CASE e.fe = "no_data" -> [tag |-> "record", rec |-> record]
           [] e.fe = "match" ->
                [tag |-> "record",
                 rec |-> [record EXCEPT !.gd = "place", !.bs = e.bs, !.gweb = e.gweb]]
           [] e.fe = "none" -> [tag |-> "None", rec |-> record]
           [] OTHER -> [tag |-> "raise", rec |-> record]

\* enrich_with_gemini: every failure of the call is caught inside it and
\* recorded in gemini_search_data; the record is always returned.
enrich_with_gemini(record, e) ==
    CASE e.research = "ok" -> [record EXCEPT !.gs = "ok"]
      [] e.research = "parse_fail" -> [record EXCEPT !.gs = "FAILED_PARSE"]
      [] e.research = "error" -> [record EXCEPT !.gs = "ERROR"]
      [] OTHER -> record

\* enrich_with_gemini_finalizer: a failure is caught inside it and recorded
\* in finalized_record ("error" for an unparseable response, "error_crash"
\* for a failed call); the record is always returned.
enrich_with_gemini_finalizer(record, e) ==
    CASE e.final = "ok" -> [record EXCEPT !.fr = "ok"]
      [] e.final = "parse_fail" -> [record EXCEPT !.fr = "error"]
      [] e.final = "error" -> [record EXCEPT !.fr = "error_crash"]
      [] OTHER -> record

\* The status filter of process_record: TRUE when the record is skipped.
StatusRejected(bs) == bs = "none" \/ bs = "CLOSED_PERMANENTLY"

\* FromResearch with a failed final synthesis turned into a drop.
FromResearch_DropFailedSynthesis(record, e) ==
    LET r1 == enrich_with_gemini(record, e) IN
    IF e.scrape = "raise" \/ e.final \in {"parse_fail", "error"}
    THEN [ret |-> "None", rec |-> r1, site |-> 279,
          calls |-> {"identity", "research", "crawl"}
                    \cup (IF e.scrape = "raise" THEN {} ELSE {"finalize"})]
    ELSE LET r2 == [r1 EXCEPT !.sd = IF e.scrape = "assets" THEN "refined" ELSE "raw"]
             r3 == enrich_with_gemini_finalizer(r2, e)
         IN [ret |-> "record", rec |-> r3, site |-> 295,
             calls |-> {"identity", "research", "crawl", "finalize"}]

\* FromResearch with a failed research call turned into a drop.
FromResearch_DropFailedResearch(record, e) ==
    LET r1 == enrich_with_gemini(record, e) IN
    IF e.scrape = "raise" \/ e.research = "error"
    THEN [ret |-> "None", rec |-> r1, site |-> 279,
          calls |-> {"identity", "research"}
                    \cup (IF e.research = "error" THEN {} ELSE {"crawl"})]
    ELSE LET r2 == [r1 EXCEPT !.sd = IF e.scrape = "assets" THEN "refined" ELSE "raw"]
             r3 == enrich_with_gemini_finalizer(r2, e)
         IN [ret |-> "record", rec |-> r3, site |-> 295,
             calls |-> {"identity", "research", "crawl", "finalize"}]

\* FromResearch with a raising crawl answered by an empty crawl payload
\* instead of a drop.
FromResearch_NullOnCrawlFailure(record, e) ==
    LET r1 == enrich_with_gemini(record, e)
        r2 == [r1 EXCEPT !.sd = CASE e.scrape = "assets" -> "refined"
                                  [] e.scrape = "no_assets" -> "raw"
                                  [] OTHER -> "absent"]
        r3 == enrich_with_gemini_finalizer(r2, e)
    IN [ret |-> "record", rec |-> r3, site |-> 295,
        calls |-> {"identity", "research", "crawl", "finalize"}]

\* The stages from the research call to the return of process_record.
\* ret is "record" or "None"; site is the source line of the return taken;
\* calls is the set of collaborators that were called.
FromResearch(record, e) ==
    LET r1 == enrich_with_gemini(record, e) IN
    IF e.scrape = "raise"
    THEN [ret |-> "None", rec |-> r1, site |-> 279,
          calls |-> {"identity", "research", "crawl"}]
    ELSE LET r2 == [r1 EXCEPT !.sd = IF e.scrape = "assets" THEN "refined" ELSE "raw"]
             r3 == enrich_with_gemini_finalizer(r2, e)
         IN [ret |-> "record", rec |-> r3, site |-> 295,
             calls |-> {"identity", "research", "crawl", "finalize"}]

\* process_record.  ret "raise" is an exception that leaves process_record:
\* the except clause at the end logs record.get('id'), which itself raises
\* when record is not a dict (a non-object input line) or is None (what
\* find_and_enrich returned was assigned to record).
process_record(record, e) ==
    IF record.shape # "dict"
    THEN [ret |-> "raise", rec |-> record, site |-> 292, calls |-> {}]
    ELSE
    LET f == find_and_enrich(record, e) IN
    CASE f.tag = "raise" ->
           [ret |-> "None", rec |-> record, site |-> 293, calls |-> {"identity"}]
      [] f.tag = "None" ->
           [ret |-> "raise", rec |-> record, site |-> 292, calls |-> {"identity"}]
      [] OTHER ->
           LET r == f.rec IN
           IF r.gd = "NOT_FOUND"
           THEN [ret |-> "None", rec |-> r, site |-> 207, calls |-> {"identity"}]
           ELSE IF StatusRejected(r.bs)
           THEN [ret |-> "None", rec |-> r, site |-> 213, calls |-> {"identity"}]
           ELSE IF ~r.web /\ ~r.gweb
           THEN [ret |-> "None", rec |-> r, site |-> 221, calls |-> {"identity"}]
           ELSE FromResearch(r, e)

\* The three ways process_record can end, over all records and collaborators.
ProcessOutcomes == {process_record(r, e).ret : r \in InputRecords, e \in Envs}


\* AfterProcess without the except clause: the exception ends the call of
\* process_and_write where it is.
AfterProcess_Uncaught(ret) ==
    CASE ret = "record" -> "write"
      [] ret = "None" -> "mark"
      [] OTHER -> "dead"

\* process_and_write's branch after process_record has ended: the writer
\* when a record came back (a record that passed the website check is a
\* non-empty dict, so `if result:` holds), the checkpoint update when None
\* came back, the except clause when the call raised.
AfterProcess(ret) ==
    CASE ret = "record" -> "write"
      [] ret = "None" -> "mark"
      [] OTHER -> "except"

\* increment for an except clause and a try block that count nothing.
increment_None(count) == count

\* ProgressReporter.increment: with self._lock: self._completed += 1
increment(count) == count + 1

\* NewMax as a plain assignment of the finishing index.
NewMax_Assign(current, index) == index

\* max_index_completed = max(max_index_completed, index)
NewMax(current, index) == IF index > current THEN index ELSE current

\* LockFree for a writer that takes no lock.
LockFree_NoLock(lock) == TRUE

\* `with self._lock:` of ThreadSafeOutputWriter.write: the lock is free
\* (0) or held by one worker.
LockFree(lock) == lock = 0

\* Complete lines of a chunk sequence that hold the record of index i.
LinesIn(file, i) ==
    Cardinality({k \in DOMAIN file : file[k] = [idx |-> i, part |-> "nl"]})

\* ------------------------------------------- the match rules: pure parts
\* Names, addresses and queries are strings: sequences of characters.
\* str.strip(): white space off both ends.
RECURSIVE Strip(_)
Strip(str) ==
    IF str = <<>> THEN str
    ELSE IF Head(str) = " " THEN Strip(Tail(str))
    ELSE IF str[Len(str)] = " " THEN Strip(SubSeq(str, 1, Len(str) - 1))
    ELSE str

\* str.lower() on the characters the names below use.
LowerStr(str) == [i \in DOMAIN str |-> IF str[i] = "K" THEN "k" ELSE str[i]]

DigitChars == {"1", "2"}

\* re.search(r'^(\d+)', str(addr).strip()): the digits the stripped string
\* starts with; <<>> when it starts with none (no match).
RECURSIVE DigitPrefix(_)
DigitPrefix(str) ==
    IF str # <<>> /\ Head(str) \in DigitChars
    THEN <<Head(str)>> \o DigitPrefix(Tail(str))
    ELSE <<>>
StreetNumber(addr) == DigitPrefix(Strip(addr))

\* _are_addresses_consistent: False when an address is missing; the street
\* numbers must be equal when both strings start with one; True otherwise.
_are_addresses_consistent(addr1, addr2) ==
    IF addr1 = <<>> \/ addr2 = <<>> THEN FALSE
    ELSE IF StreetNumber(addr1) # <<>> /\ StreetNumber(addr2) # <<>>
         THEN StreetNumber(addr1) = StreetNumber(addr2)
         ELSE TRUE

\* n1 in n2
Contains(n1, n2) ==
    \E i \in 0 .. (Len(n2) - Len(n1)) : SubSeq(n2, i + 1, i + Len(n1)) = n1

\* The blocks a and b have in common: [i, j, k] for a[i .. i+k-1] =
\* b[j .. j+k-1], k > 0.
CommonBlocks(a, b) ==
    {blk \in [i : DOMAIN a, j : DOMAIN b, k : 1 .. Len(a)] :
        /\ blk.i + blk.k - 1 <= Len(a)
        /\ blk.j + blk.k - 1 <= Len(b)
        /\ SubSeq(a, blk.i, blk.i + blk.k - 1) = SubSeq(b, blk.j, blk.j + blk.k - 1)}

\* difflib's find_longest_match: the longest common block, of those the one
\* starting earliest in a, of those the one starting earliest in b.
LongestBlock(a, b) ==
    CHOOSE blk \in CommonBlocks(a, b) :
        \A other \in CommonBlocks(a, b) :
            \/ blk.k > other.k
            \/ blk.k = other.k /\ blk.i < other.i
            \/ blk.k = other.k /\ blk.i = other.i /\ blk.j <= other.j

\* The number of matching characters SequenceMatcher counts: the longest
\* block, then the same to its left and to its right.
RECURSIVE MatchingChars(_, _)
MatchingChars(a, b) ==
    IF CommonBlocks(a, b) = {} THEN 0
    ELSE LET blk == LongestBlock(a, b)
         IN blk.k
            + MatchingChars(SubSeq(a, 1, blk.i - 1), SubSeq(b, 1, blk.j - 1))
            + MatchingChars(SubSeq(a, blk.i + blk.k, Len(a)),
                            SubSeq(b, blk.j + blk.k, Len(b)))

\* _are_names_similar, threshold 0.3: containment either way of the
\* lower-cased names, or ratio = 2 * M / T >= 0.3, i.e. 20 * M >= 3 * T.
_are_names_similar(name1, name2) ==
    IF name1 = <<>> \/ name2 = <<>> THEN FALSE
    ELSE LET n1 == LowerStr(name1)
             n2 == LowerStr(name2)
         IN \/ Contains(n1, n2)
            \/ Contains(n2, n1)
            \/ 20 * MatchingChars(n1, n2) >= 3 * (Len(n1) + Len(n2))

\* full_query = f"{name} {address_query}".strip()
FullQuery(name, address_query) == Strip(name \o <<" ">> \o address_query)

\* _is_valid_match(record, google_data, full_query) as find_and_enrich calls
\* it: the third argument, which _is_valid_match hands to
\* _are_addresses_consistent as the record's address, is the full query,
\* the name followed by the address.
ValidMatch(name, address_query, google_name, google_address) ==
    /\ _are_names_similar(name, google_name)
    /\ _are_addresses_consistent(FullQuery(name, address_query), google_address)

\* ------------------------------------------------ the crawler: pure parts
\* WebsiteScraper.__init__
max_depth == 3
max_pages == 15
priority_keywords ==
    {"about", "program", "curriculum", "tuition", "contact", "gallery",
     "admission", "staff", "team", "philosophy", "schedule"}
ignored_keywords ==
    {"blog", "news", "event", "calendar", "login", "portal", "parent-portal",
     "career", "job", "policy", "terms", "privacy"}

\* A URL is a host (with or without a leading "www."), a path (a sequence
\* of words) and a trailing slash.  A link found on a page also has a
\* scheme and may carry a fragment.
Url(www, name, path, slash) ==
    [www |-> www, name |-> name, path |-> path, slash |-> slash]
Link(scheme, www, name, path, slash, frag) ==
    [scheme |-> scheme, www |-> www, name |-> name, path |-> path,
     slash |-> slash, frag |-> frag]
OwnLink(path) == Link("http", FALSE, "own", path, FALSE, FALSE)

\* _get_domain: the network location without a leading "www."
_get_domain(url) == url.name

\* link.split('#')[0].rstrip('/')
NormaliseLink(link) == Url(link.www, link.name, link.path, FALSE)

\* str.lower() on the words the sites below use.
Lower(word) ==
    CASE word = "NEWS" -> "news"
      [] word = "Contact" -> "contact"
      [] OTHER -> word

\* The keywords that occur in a lower-case word (`keyword in link_lower`
\* is a substring test: "newsletter" holds "news").
KeywordsIn(word) ==
    CASE word = "newsletter" -> {"news"}
      [] word = "programs" -> {"program"}
      [] word = "parent-portal" -> {"portal", "parent-portal"}
      [] word \in priority_keywords \cup ignored_keywords -> {word}
      [] OTHER -> {}

KeywordsOfUrl(url) ==
    UNION {KeywordsIn(Lower(url.path[i])) : i \in DOMAIN url.path}

\* any(ignored in link_lower for ignored in self.ignored_keywords)
IsIgnored(url) == KeywordsOfUrl(url) \cap ignored_keywords # {}
\* any(p in link_lower for p in self.priority_keywords)
IsPriority(url) == KeywordsOfUrl(url) \cap priority_keywords # {}

\* AcceptLink with the blocklist applied to the links of the root page only.
AcceptLink_BlocklistAtRootOnly(url, depth) ==
    IF depth = 0 THEN ~IsIgnored(url) ELSE IsPriority(url)

\* AcceptLink without the acceptance of every link of the root page.
AcceptLink_PriorityOnly(url, depth) ==
    /\ ~IsIgnored(url)
    /\ IsPriority(url)

\* The heuristic filter of the link loop: the blocklist first, then a
\* priority keyword or depth 0.
AcceptLink(url, depth) ==
    /\ ~IsIgnored(url)
    /\ (IsPriority(url) \/ depth = 0)

\* if self._get_domain(link) != domain: continue
SameDomain(url, domain) == _get_domain(url) = domain

\* The link loop of one page: the links in page order, each one normalised,
\* checked for scheme, domain, visited/queued and the heuristic filter, and
\* appended to the queue one level deeper.
RECURSIVE QueueLinks(_, _, _, _, _)
QueueLinks(links, queue, visited, depth, domain) ==
    IF links = <<>> THEN queue
    ELSE LET link == NormaliseLink(Head(links))
             skip == \/ Head(links).scheme # "http"
                     \/ ~SameDomain(link, domain)
                     \/ link \in visited
                     \/ \E i \in DOMAIN queue : queue[i][1] = link
                     \/ ~AcceptLink(link, depth)
         IN QueueLinks(Tail(links),
                       IF skip THEN queue ELSE Append(queue, <<link, depth + 1>>),
                       visited, depth, domain)

\* hashlib.md5(url.encode()).hexdigest(): distinct URLs of the sites below
\* have distinct digests.
Md5(url) == <<"md5", url>>

\* The local path of an image or a PDF: assets/img_<md5>.jpg (.png, .webp
\* by the URL's ending) or assets/doc_<md5>.pdf.
AssetName(type, src) ==
    [dir |-> "assets", prefix |-> IF type = "image" THEN "img" ELSE "doc",
     digest |-> Md5(src),
     ext |-> IF type = "pdf" THEN "pdf"
             ELSE IF src.ext \in {"png", "webp"} THEN src.ext ELSE "jpg"]

\* TextName without the digest of the page's URL.
TextName_NoDigest(url) ==
    [dir |-> "base", prefix |-> "content", digest |-> <<"md5">>, ext |-> "txt"]

\* The local path of a page's text: content_<md5>.txt
TextName(url) == [dir |-> "base", prefix |-> "content", digest |-> Md5(url), ext |-> "txt"]

\* _verify_asset without the aspect-ratio test.
_verify_asset_NoRatio(file, asset_type) ==
    IF asset_type = "pdf" THEN file.size >= 5 * 1024
    ELSE /\ file.size >= 10 * 1024
         /\ file.readable
         /\ ~(file.width < 200 \/ file.height < 200)

\* _verify_asset on a file that exists.  ratio = width / height is compared
\* with 3.0 and 0.33; with integers: width > 3 * height and
\* 100 * width < 33 * height.  An image PIL cannot open is rejected.
_verify_asset(file, asset_type) ==
    IF asset_type = "pdf" THEN file.size >= 5 * 1024
    ELSE /\ file.size >= 10 * 1024
         /\ file.readable
         /\ ~(file.width < 200 \/ file.height < 200)
         /\ ~(file.width > 3 * file.height \/ 100 * file.width < 33 * file.height)

\* Dedupe collected assets list by url, keeping the first entry of each.
DedupeAssets(assets) ==
    SelectSeq([i \in DOMAIN assets |->
                  IF \E j \in 1 .. (i - 1) : assets[j].original_url = assets[i].original_url
                  THEN [type |-> "dup", original_url |-> "dup", local_path |-> "dup"]
                  ELSE assets[i]],
              LAMBDA a : a.type # "dup")

\* json.dump(result, f) and json.load(f): the manifest's five keys, in the
\* order the dict was built, numbers, strings and lists kept as such.
json_dump(result) ==
    <<result.root_url, result.timestamp, result.pages_crawled,
      result.assets_found, result.assets>>
json_load(text) ==
    [root_url |-> text[1], timestamp |-> text[2], pages_crawled |-> text[3],
     assets_found |-> text[4], assets |-> text[5]]

\* LoopContinues with the page bound tested after the page is counted.
LoopContinues_OffByOne(queue, visited) ==
    queue # <<>> /\ Cardinality(visited) <= max_pages

\* LoopContinues without the page bound.
LoopContinues_NoPageBound(queue, visited) == queue # <<>>

\* while queue and len(visited_urls) < self.max_pages
LoopContinues(queue, visited) ==
    queue # <<>> /\ Cardinality(visited) < max_pages

\* ManifestHit that never finds a manifest.
ManifestHit_Never(manifest) == FALSE

\* os.path.exists(manifest_path); <<>> stands for no file.
ManifestHit(manifest) == manifest # <<>>

\* ------------------------------------------------------ the crawled web
File(size, width, height, readable) ==
    [size |-> size, width |-> width, height |-> height, readable |-> readable]
\* No file at a path; as an answer of the web: not served with status 200.
NoFile == File(-1, 0, 0, FALSE)

Src(scheme, file, ext) == [scheme |-> scheme, name |-> "own", file |-> file, ext |-> ext]
ImageX == Src("http", "x", "jpg")
ImageInline == Src("data", "inline", "png")
PdfD == Src("http", "d", "pdf")
AssetSrcs == {ImageX, ImageInline, PdfD}

\* What the web may serve for an image and for a PDF: files on both sides
\* of each threshold of _verify_asset, an image PIL cannot open, and no
\* file.  No image is wider than 1000 pixels, so _resize_image_if_needed
\* leaves the files as they are.
ImageFiles ==
    {File(10240, 200, 200, TRUE), File(10239, 200, 200, TRUE),
     File(10240, 199, 200, TRUE), File(10240, 200, 199, TRUE),
     File(10240, 600, 200, TRUE), File(10240, 601, 200, TRUE),
     File(10240, 200, 606, TRUE), File(10240, 200, 607, TRUE),
     File(10240, 0, 0, FALSE), NoFile}
PdfFiles == {File(5120, 0, 0, FALSE), File(5119, 0, 0, FALSE)}

Sites == {"deep", "wide", "gallery", "docs"}
PlainWords ==
    <<"p01", "p02", "p03", "p04", "p05", "p06", "p07", "p08", "p09",
      "p10", "p11", "p12", "p13", "p14", "p15">>

Page(text, images, pdfs, links) ==
    [text |-> text, images |-> images, pdfs |-> pdfs, links |-> links]
EmptyPage == Page(FALSE, <<>>, <<>>, <<>>)

\* What page.goto and the page.evaluate calls give for a path of a site:
\* whether the text is longer than 100 characters, the img sources, the
\* PDF links and the a[href] links, in document order.
SitePage(site, path) ==
    CASE site = "deep" /\ path = <<>> ->
           Page(TRUE, <<>>, <<>>,
                <<OwnLink(<<"about">>),
                  Link("http", FALSE, "own", <<>>, TRUE, TRUE),
                  Link("mailto", FALSE, "own", <<"Contact">>, FALSE, FALSE),
                  Link("http", FALSE, "other", <<"about">>, FALSE, FALSE),
                  Link("http", TRUE, "own", <<"programs">>, TRUE, FALSE),
                  OwnLink(<<"NEWS">>),
                  OwnLink(<<"p01">>)>>)
      [] site = "deep" /\ path = <<"about">> ->
           Page(TRUE, <<>>, <<>>,
                <<OwnLink(<<"about", "team">>),
                  OwnLink(<<"p02">>),
                  OwnLink(<<"about", "newsletter">>),
                  Link("http", FALSE, "other", <<"staff">>, FALSE, FALSE)>>)
      [] site = "deep" /\ path = <<"about", "team">> ->
           Page(FALSE, <<>>, <<>>, <<OwnLink(<<"about", "team", "staff">>)>>)
      [] site = "deep" /\ path = <<"about", "team", "staff">> ->
           Page(FALSE, <<>>, <<>>,
                <<OwnLink(<<"about", "team", "staff", "schedule">>)>>)
      [] site = "wide" /\ path = <<>> ->
           Page(FALSE, <<>>, <<>>,
                [i \in DOMAIN PlainWords |-> OwnLink(<<PlainWords[i]>>)])
      [] site = "gallery" /\ path = <<>> ->
           Page(TRUE, <<ImageX, ImageInline>>, <<>>, <<OwnLink(<<"about">>)>>)
      [] site = "gallery" /\ path = <<"about">> ->
           Page(TRUE, <<ImageX>>, <<>>, <<OwnLink(<<>>)>>)
      [] site = "docs" /\ path = <<>> ->
           Page(FALSE, <<>>, <<PdfD>>, <<>>)
      [] OTHER -> EmptyPage

\* The files the web may hold behind the asset URLs of a site.
SiteFiles(site) ==
    CASE site = "gallery" ->
           {[src \in AssetSrcs |-> IF src = ImageX THEN x ELSE NoFile] :
               x \in ImageFiles}
      [] site = "docs" ->
           {[src \in AssetSrcs |-> IF src = PdfD THEN d ELSE NoFile] :
               d \in PdfFiles}
      [] OTHER -> {[src \in AssetSrcs |-> NoFile]}

\* The pages of a site that may fail to load (page.goto raises): none, or
\* one of them.
SiteDown(site) ==
    CASE site = "deep" -> {{}, {<<>>}, {<<"about">>}, {<<"p01">>}}
      [] OTHER -> {{}}

\* The URL the records of the domain give to scrape, and the URL a record
\* gives that writes the same site with a leading "www.".
start_url == Url(FALSE, "own", <<>>, TRUE)
www_url == Url(TRUE, "own", <<>>, TRUE)

\* The assets directory of the domain: the paths an asset of the sites can
\* be saved at.
DiskPaths == {AssetName("image", ImageX), AssetName("image", ImageInline),
              AssetName("pdf", PdfD)}


\* ---------------------------------------------------------------- state
VARIABLES
    pc_main,              \* "init", "running", "done" (main returned), "killed",
                          \* "no_input" (main returned: no input file);
                          \* "off" in SpecRecord
    runs,                 \* invocations of main() so far
    start_index,          \* main's start_index
    next_idx,             \* next input index the executor hands to a thread
    pc,                   \* per worker: position in process_and_write
    cur,                  \* per worker: index of the record it holds
    res,                  \* per worker: how process_record ended
    max_index_completed,  \* main's max_index_completed
    state_file,           \* last_processed_index in STATE_FILE, -1 if absent
    kept,                 \* OUTPUT_FILE as the writer found it when it opened
                          \* the file: per index, the number of lines held
    output,               \* the chunks the writer has output to OUTPUT_FILE
    written_count,        \* ThreadSafeOutputWriter._written_count
    writer_lock,          \* ThreadSafeOutputWriter._lock: 0 or the holder
    completed,            \* ProgressReporter._completed
    fate,                 \* per index: how process_and_write ended in this run
    retry_ledger,         \* the retry ledger; no statement of process_flow.py
                          \* or of the enrichment modules appends to one
    r_pc,                 \* SpecRecord: position in process_and_write
    r_idx,                \* SpecRecord: input index of the record
    r_rec,                \* SpecRecord: the record read from the input
    r_env,                \* SpecRecord: what the collaborators answer
    r_res,                \* SpecRecord: what process_record returned
    r_out,                \* SpecRecord: records written to OUTPUT_FILE
    cost_lock,            \* ThreadSafeCostTracker._lock: 0 or the holder
    cost_data,            \* ThreadSafeCostTracker._data: step -> input, output
    c_left,               \* SpecCost: records not yet taken by a thread
    c_pc,                 \* SpecCost: per worker, position in process_record/add
    c_todo,               \* SpecCost: per worker, collaborator calls still to make
    c_arg,                \* SpecCost: per worker, the arguments of its add call
    c_tmp,                \* SpecCost: per worker, the value it read from _data
    c_usage,              \* SpecCost: usage the collaborators have reported,
                          \* per collaborator
    cost_keys,            \* the keys of _data, in the order of their creation
    cost_totals,          \* SpecCost: per step, the totals _data held after
                          \* each add that has returned
    p_pc,                 \* ProgressReporter thread: position in _print_progress
    p_todo,               \* the items of cost_snapshot still to be read
    p_in,                 \* tokens["input"] as _calculate_cost read it
    p_seen,               \* the last (input, output) pair _calculate_cost read
    web_site,             \* SpecCrawl: the site behind the domain
    web_files,            \* SpecCrawl: the file served for each asset URL
    web_down,             \* SpecCrawl: the paths whose page.goto fails
    root_urls,            \* the URLs the records of the domain give to scrape
    disk_files,           \* <output_base>/<domain>/assets: path -> file
    disk_manifest,        \* <output_base>/<domain>/metadata.json: <<>> if
                          \* absent, <<"">> once opened for writing, else
                          \* the dumped manifest
    clock,                \* time.time()
    k_pc,                 \* per crawler: position in scrape_async
    k_before,             \* per crawler: metadata.json when scrape was called
    k_url,                \* per crawler: start_url, the argument of scrape
    k_alone,              \* per crawler: whether no other crawl was under
                          \* way when scrape was called
    visited_urls,         \* per crawler: visited_urls
    k_depths,             \* per crawler: the (url, depth) pairs it visited
    queue,                \* per crawler: queue
    collected_assets,     \* per crawler: collected_assets
    k_page,               \* per crawler: (current_url, depth)
    k_todo,               \* per crawler: assets of the page still to handle
    k_loads,              \* per crawler: calls of page.goto
    k_downloads,          \* per crawler: calls of _download_asset
    k_result,             \* per crawler: what scrape returned
    g_place,              \* SpecPlaces: what the directory holds for the query
    g_photos,             \* SpecPlaces: photos the directory lists for the place
    g_cache0,             \* SpecPlaces: the cache file before the first call
    cache_file,           \* data/cache/google_places/<md5 of query>.json
    image_dir,            \* data/cache/google_places/images/<place_id>
    g_pc,                 \* per worker: position in find_and_enrich
    g_details,            \* per worker: structured_data as built so far
    g_next,               \* per worker: next image to download
    g_entry,              \* per worker: what it is about to write to the cache
    g_lookups,            \* per worker: remote lookups made
    g_verdict,            \* per worker: what find_and_enrich returns
    g_faults,             \* SpecPlaces: remote calls that have failed so far
    g_seen,               \* per worker: the workers that had returned when
                          \* it read the cache
    m_pc,                 \* SpecMatch: "start", "done"
    m_name,               \* SpecMatch: the record's name
    m_addr,               \* SpecMatch: the record's address, as joined for
                          \* the query
    m_gname,              \* SpecMatch: the candidate's name
    m_gaddr,              \* SpecMatch: the candidate's formatted_address
    m_valid,              \* SpecMatch: what _is_valid_match returned
    exit_code,            \* the exit status of the process once main has
                          \* returned; -1 before, and for a killed process
    t_pc,                 \* SpecRetry: "off", "idle", "attempt", "sleep",
                          \* "parse", "return", "done"
    t_stage,              \* SpecRetry: the stages still to call, in order
    t_attempt,            \* SpecRetry: the loop variable attempt
    t_response,           \* SpecRetry: response (NoResponse for None)
    t_usage,              \* SpecRetry: usage_stats of the call under way
    t_log,                \* SpecRetry: per stage, the outcomes of its requests
    t_delays,             \* SpecRetry: per stage, the delays slept
    t_field,              \* SpecRetry: per stage, what the call left in the record
    t_added,              \* SpecRetry: per stage, the usages given to cost_tracker.add
    l_pc,                 \* SpecLoad: "off", "start", "read", "submit", "done"
    l_lines,              \* SpecLoad: the lines of INPUT_FILE
    l_state,              \* SpecLoad: the content of STATE_FILE
    l_resume,             \* SpecLoad: args.resume
    l_limit,              \* SpecLoad: args.limit (0: no limit)
    l_start,              \* SpecLoad: start_index
    l_i,                  \* SpecLoad: the index of the next line to read
    l_records,            \* SpecLoad: the indexes of records_to_process
    l_submitted,          \* SpecLoad: the indexes given to the pool, in order
    i_pc,                 \* SpecImage: "off", "downloaded", "verified",
                          \* "listed", "rejected"
    i_file,               \* SpecImage: the file at save_path
    i_listed,             \* SpecImage: the image is in collected_assets
    n_pc,                 \* SpecRank: "off", "called", "scoring", "returned"
    n_paths,              \* SpecRank: image_paths, in the order of the manifest
    n_good,               \* SpecRank: the paths that exist with more than 5000 bytes
    n_top,                \* SpecRank: top_n
    n_valid,              \* SpecRank: valid_paths
    n_failed,             \* SpecRank: the scoring raised
    n_result,             \* SpecRank: what rank_images returned
    e_pc,                 \* SpecLimit: position of the call of _enforce_length_limit
    e_text,               \* SpecLimit: the description, or none
    e_max,                \* SpecLimit: max_length
    e_result              \* SpecLimit: the string returned

poolVars == <<pc_main, runs, start_index, next_idx, pc, cur, res, state_file,
              output, kept, writer_lock, fate>>
sharedVars == <<max_index_completed, written_count, completed, retry_ledger>>
recordVars == <<r_pc, r_idx, r_rec, r_env, r_res, r_out>>
reportVars == <<p_pc, p_todo, p_in, p_seen>>
costVars == <<cost_lock, cost_data, c_left, c_pc, c_todo, c_arg, c_tmp, c_usage,
             cost_keys, cost_totals, reportVars>>
webVars == <<web_site, web_files, web_down, root_urls>>
crawlVars == <<webVars, disk_files, disk_manifest, clock, k_pc, k_before, k_url, k_alone,
               visited_urls, k_depths, queue, collected_assets, k_page, k_todo,
               k_loads, k_downloads, k_result>>
placeVars == <<g_place, g_photos, g_cache0, cache_file, image_dir, g_pc, g_details,
               g_next, g_entry, g_lookups, g_verdict, g_faults, g_seen>>
matchVars == <<m_pc, m_name, m_addr, m_gname, m_gaddr, m_valid>>
startVars == <<exit_code>>
retryVars == <<t_pc, t_stage, t_attempt, t_response, t_usage, t_log, t_delays,
               t_field, t_added>>
loadVars == <<l_pc, l_lines, l_state, l_resume, l_limit, l_start, l_i, l_records,
              l_submitted>>
imageVars == <<i_pc, i_file, i_listed>>
\* The state of the specifications of single functions.
rankVars == <<n_pc, n_paths, n_good, n_top, n_valid, n_failed, n_result>>
limitVars == <<e_pc, e_text, e_max, e_result>>
lateVars == <<loadVars, imageVars, rankVars, limitVars>>
auxVars == <<matchVars, startVars, retryVars, lateVars>>
\* What main's own steps leave alone of the other specifications' state.
restVars == <<costVars, crawlVars, placeVars, matchVars, retryVars, lateVars>>
extVars == <<costVars, crawlVars, placeVars, auxVars>>
baseVars == <<poolVars, sharedVars, recordVars>>
vars == <<baseVars, extVars>>
\* What the steps of the specifications of single functions leave alone.
earlyVars == <<baseVars, costVars, crawlVars, placeVars, matchVars, startVars, retryVars>>
loadRest == <<earlyVars, imageVars, rankVars, limitVars>>
imageRest == <<earlyVars, loadVars, rankVars, limitVars>>
rankRest == <<earlyVars, loadVars, imageVars, limitVars>>
limitRest == <<earlyVars, loadVars, imageVars, rankVars>>

NoResult == [ret |-> "-", rec |-> CHOOSE r \in InputRecords : TRUE, site |-> 0, calls |-> {}]

\* The part of the state SpecRecord owns, at rest.
RecordIdle ==
    /\ r_pc = "off"
    /\ r_idx = 0
    /\ r_rec = CHOOSE r \in InputRecords : TRUE
    /\ r_env = CHOOSE e \in Envs : TRUE
    /\ r_res = NoResult
    /\ r_out = <<>>

\* The part of the state Spec owns, at rest.
PoolIdle ==
    /\ pc_main = "off"
    /\ runs = 0
    /\ start_index = 0
    /\ next_idx = 0
    /\ pc = [w \in Workers |-> "idle"]
    /\ cur = [w \in Workers |-> -1]
    /\ res = [w \in Workers |-> "-"]
    /\ state_file = -1
    /\ output = <<>>
    /\ kept = [i \in Indexes |-> 0]
    /\ writer_lock = 0
    /\ fate = [i \in Indexes |-> "-"]

\* The counters main shares with its threads, at rest.
SharedIdle ==
    /\ max_index_completed = -1
    /\ written_count = 0
    /\ completed = 0
    /\ retry_ledger = <<>>

\* The keys cost_tracker.add is called with, per collaborator.
Collaborators == {"research", "finalize"}
CostStep(collaborator) ==
    IF collaborator = "research" THEN "gemini_search" ELSE "gemini_finalizer"
CostSteps == {CostStep(c) : c \in Collaborators}

NoTokens == [input |-> 0, output |-> 0]
NothingSeen == [step |-> "-", input |-> 0, output |-> 0]

\* The part of the state SpecCost owns, at rest.  _data is a defaultdict:
\* a step never added to reads as zero tokens.
CostIdle ==
    /\ cost_lock = 0
    /\ cost_data = [s \in CostSteps |-> NoTokens]
    /\ c_left = 0
    /\ c_pc = [w \in Workers |-> "idle"]
    /\ c_todo = [w \in Workers |-> <<>>]
    /\ c_arg = [w \in Workers |-> [step |-> "-", input |-> 0, output |-> 0]]
    /\ c_tmp = [w \in Workers |-> 0]
    /\ c_usage = [c \in Collaborators |-> NoTokens]
    /\ cost_keys = <<>>
    /\ cost_totals = [s \in CostSteps |-> {NoTokens}]
    /\ p_pc = "idle"
    /\ p_todo = <<>>
    /\ p_in = 0
    /\ p_seen = NothingSeen

Crawlers == 1 .. NumCrawlers

NoManifest == <<>>
\* metadata.json between open(manifest_path, 'w') and json.dump
Truncated == <<"">>
NoUrl == Url(FALSE, "-", <<>>, FALSE)
NoCrawlResult ==
    [root_url |-> NoUrl, timestamp |-> -1, pages_crawled |-> 0,
     assets_found |-> 0, assets |-> <<>>]

\* The crawlers' own state before scrape is called.
CrawlersIdle ==
    /\ k_pc = [k \in Crawlers |-> "idle"]
    /\ k_before = [k \in Crawlers |-> NoManifest]
    /\ k_url = [k \in Crawlers |-> NoUrl]
    /\ k_alone = [k \in Crawlers |-> FALSE]
    /\ visited_urls = [k \in Crawlers |-> {}]
    /\ k_depths = [k \in Crawlers |-> {}]
    /\ queue = [k \in Crawlers |-> <<>>]
    /\ collected_assets = [k \in Crawlers |-> <<>>]
    /\ k_page = [k \in Crawlers |-> <<NoUrl, 0>>]
    /\ k_todo = [k \in Crawlers |-> <<>>]
    /\ k_loads = [k \in Crawlers |-> 0]
    /\ k_downloads = [k \in Crawlers |-> 0]
    /\ k_result = [k \in Crawlers |-> NoCrawlResult]

\* An empty content store.
DiskEmpty ==
    /\ disk_files = [path \in DiskPaths |-> NoFile]
    /\ disk_manifest = NoManifest
    /\ clock = 0

\* The part of the state SpecCrawl owns, at rest.
CrawlIdle ==
    /\ web_site = "deep"
    /\ web_files = [src \in AssetSrcs |-> NoFile]
    /\ web_down = {}
    /\ root_urls = {start_url}
    /\ DiskEmpty
    /\ CrawlersIdle

\* A cache entry: the details of a place, a NOT_FOUND marker with its
\* reason, no file, or a file opened for writing and still empty.
Entry(status, reason, place, street_view, photos) ==
    [status |-> status, reason |-> reason, place |-> place,
     street_view |-> street_view, photos |-> photos]
NoEntry == Entry("absent", "-", "-", FALSE, <<>>)
EmptyEntry == Entry("empty", "-", "-", FALSE, <<>>)
NotFound(reason) == Entry("NOT_FOUND", reason, "-", FALSE, <<>>)
NoDir == [exists |-> FALSE, files |-> {}]
NoVerdict == [ret |-> "-", google_data |-> NoEntry]

\* The part of the state SpecPlaces owns, at rest.
PlaceIdle ==
    /\ g_place = "none"
    /\ g_photos = 0
    /\ g_cache0 = NoEntry
    /\ cache_file = NoEntry
    /\ image_dir = NoDir
    /\ g_pc = [w \in Workers |-> "idle"]
    /\ g_details = [w \in Workers |-> NoEntry]
    /\ g_next = [w \in Workers |-> 0]
    /\ g_entry = [w \in Workers |-> NoEntry]
    /\ g_lookups = [w \in Workers |-> 0]
    /\ g_verdict = [w \in Workers |-> NoVerdict]
    /\ g_faults = 0
    /\ g_seen = [w \in Workers |-> {}]

\* The part of the state SpecMatch owns, at rest.
MatchIdle ==
    /\ m_pc = "off"
    /\ m_name = <<>>
    /\ m_addr = <<>>
    /\ m_gname = <<>>
    /\ m_gaddr = <<>>
    /\ m_valid = FALSE

\* No process has exited.
StartIdle == exit_code = -1

\* The two calls of process_record that are retried.
Stages == {"research", "finalize"}

\* response = None, and a response without usage_metadata.
NoResponse == [kind |-> "None", input |-> 0, output |-> 0]

\* The part of the state SpecRetry owns, at rest.
RetryIdle ==
    /\ t_pc = "off"
    /\ t_stage = <<>>
    /\ t_attempt = 0
    /\ t_response = NoResponse
    /\ t_usage = NoTokens
    /\ t_log = [s \in Stages |-> <<>>]
    /\ t_delays = [s \in Stages |-> <<>>]
    /\ t_field = [s \in Stages |-> "absent"]
    /\ t_added = [s \in Stages |-> <<>>]

\* The part of the state SpecLoad owns, at rest.
LoadIdle ==
    /\ l_pc = "off"
    /\ l_lines = <<>>
    /\ l_state = [kind |-> "missing", index |-> -1]
    /\ l_resume = FALSE
    /\ l_limit = 0
    /\ l_start = 0
    /\ l_i = 0
    /\ l_records = <<>>
    /\ l_submitted = <<>>

\* The part of the state SpecImage owns, at rest.
ImageIdle ==
    /\ i_pc = "off"
    /\ i_file = [size |-> -1, width |-> 0, height |-> 0, readable |-> FALSE]
    /\ i_listed = FALSE

\* The part of the state SpecRank owns, at rest.
RankIdle ==
    /\ n_pc = "off"
    /\ n_paths = <<>>
    /\ n_good = {}
    /\ n_top = 0
    /\ n_valid = <<>>
    /\ n_failed = FALSE
    /\ n_result = <<>>

\* The part of the state SpecLimit owns, at rest.
LimitIdle ==
    /\ e_pc = "off"
    /\ e_text = [given |-> FALSE, runs |-> <<>>]
    /\ e_max = 0
    /\ e_result = <<>>

LateIdle == LoadIdle /\ ImageIdle /\ RankIdle /\ LimitIdle

AuxIdle == MatchIdle /\ StartIdle /\ RetryIdle /\ LateIdle

ExtIdle == CostIdle /\ CrawlIdle /\ PlaceIdle /\ AuxIdle

\* load_state(): last_processed_index, or -1 without a readable state file.
load_state == state_file

\* ------------------------------------------------------------ Spec: main()
Init ==
    /\ pc_main = "init"
    /\ runs = 0
    /\ start_index = 0
    /\ next_idx = 0
    /\ pc = [w \in Workers |-> "idle"]
    /\ cur = [w \in Workers |-> -1]
    /\ res = [w \in Workers |-> "-"]
    /\ max_index_completed = -1
    /\ state_file = -1
    /\ output = <<>>
    /\ kept = [i \in Indexes |-> 0]
    /\ written_count = 0
    /\ writer_lock = 0
    /\ completed = 0
    /\ fate = [i \in Indexes |-> "-"]
    /\ retry_ledger = <<>>
    /\ RecordIdle
    /\ ExtIdle

\* main() from its first line to the start of the executor.  A fresh start
\* truncates OUTPUT_FILE; --resume starts after the saved index and keeps
\* the file.  Without an input file main prints an error and returns; with
\* nothing left to process it returns at once.  The script ends with the
\* call of main(): when main returns the process exits with status 0.
Main(resume) ==
    /\ pc_main \in {"init", "done", "killed", "no_input"}
    /\ runs < MaxRuns
    /\ runs' = runs + 1
    /\ kept' = IF resume THEN [i \in Indexes |-> kept[i] + LinesIn(output, i)]
                         ELSE [i \in Indexes |-> 0]
    /\ output' = <<>>
    /\ LET s == IF resume THEN load_state + 1 ELSE 0
       IN /\ start_index' = s
          /\ next_idx' = s
          /\ max_index_completed' = s - 1
          /\ \E input_exists \in BOOLEAN :
                /\ pc_main' = IF ~input_exists THEN "no_input"
                              ELSE IF s > NumRecords - 1 THEN "done" ELSE "running"
                /\ exit_code' = IF input_exists /\ s <= NumRecords - 1 THEN -1 ELSE 0
    /\ pc' = [w \in Workers |-> "idle"]
    /\ cur' = [w \in Workers |-> -1]
    /\ res' = [w \in Workers |-> "-"]
    /\ written_count' = 0
    /\ writer_lock' = 0
    /\ completed' = 0
    /\ fate' = [i \in Indexes |-> "-"]
    /\ UNCHANGED <<state_file, retry_ledger, recordVars, restVars>>

\* A pool thread takes the next (index, record) pair (executor.map submits
\* them in index order) and runs result = process_record(record, ...) on it.
\* process_record shares nothing with the other threads but the cost
\* tracker, so the call is one step here.
Process(w) ==
    /\ pc_main = "running"
    /\ pc[w] = "idle"
    /\ next_idx <= NumRecords - 1
    /\ cur' = [cur EXCEPT ![w] = next_idx]
    /\ next_idx' = next_idx + 1
    /\ \E ret \in ProcessOutcomes :
          /\ res' = [res EXCEPT ![w] = ret]
          /\ pc' = [pc EXCEPT ![w] = AfterProcess(ret)]
    /\ UNCHANGED <<pc_main, runs, start_index, state_file, output, kept,
                   writer_lock, fate, sharedVars, recordVars, extVars>>

\* output_writer.write(result), first half: the lock is taken and the text
\* of the line reaches the file.
WriteBegin(w) ==
    /\ pc_main = "running"
    /\ pc[w] = "write"
    /\ LockFree(writer_lock)
    /\ writer_lock' = w
    /\ output' = Append(output, [idx |-> cur[w], part |-> "body"])
    /\ pc' = [pc EXCEPT ![w] = "writing"]
    /\ UNCHANGED <<pc_main, runs, start_index, next_idx, cur, res, state_file,
                   kept, fate, sharedVars, recordVars, extVars>>

\* output_writer.write(result), second half: the newline, the flush, the
\* count, and the release of the lock.
WriteEnd(w) ==
    /\ pc_main = "running"
    /\ pc[w] = "writing"
    /\ output' = Append(output, [idx |-> cur[w], part |-> "nl"])
    /\ written_count' = written_count + 1
    /\ writer_lock' = 0
    /\ pc' = [pc EXCEPT ![w] = "mark"]
    /\ UNCHANGED <<pc_main, runs, start_index, next_idx, cur, res, state_file,
                   kept, fate, max_index_completed, completed, retry_ledger,
                   recordVars, extVars>>

\* with index_lock: max_index_completed = max(max_index_completed, index)
Mark(w) ==
    /\ pc_main = "running"
    /\ pc[w] = "mark"
    /\ max_index_completed' = NewMax(max_index_completed, cur[w])
    /\ pc' = [pc EXCEPT ![w] = "progress"]
    /\ UNCHANGED <<pc_main, runs, start_index, next_idx, cur, res, state_file,
                   output, kept, writer_lock, fate, written_count, completed,
                   retry_ledger, recordVars, extVars>>

\* progress.increment() after the checkpoint update; process_and_write returns.
Progress(w) ==
    /\ pc_main = "running"
    /\ pc[w] = "progress"
    /\ completed' = increment(completed)
    /\ fate' = [fate EXCEPT ![cur[w]] = res[w]]
    /\ pc' = [pc EXCEPT ![w] = "idle"]
    /\ cur' = [cur EXCEPT ![w] = -1]
    /\ res' = [res EXCEPT ![w] = "-"]
    /\ UNCHANGED <<pc_main, runs, start_index, next_idx, state_file, output,
                   kept, writer_lock, max_index_completed, written_count,
                   retry_ledger, recordVars, extVars>>

\* The except clause of process_and_write: the record is logged and counted
\* as processed; the checkpoint update is not reached.
Except(w) ==
    /\ pc_main = "running"
    /\ pc[w] = "except"
    /\ completed' = increment(completed)
    /\ fate' = [fate EXCEPT ![cur[w]] = res[w]]
    /\ pc' = [pc EXCEPT ![w] = "idle"]
    /\ cur' = [cur EXCEPT ![w] = -1]
    /\ res' = [res EXCEPT ![w] = "-"]
    /\ UNCHANGED <<pc_main, runs, start_index, next_idx, state_file, output,
                   kept, writer_lock, max_index_completed, written_count,
                   retry_ledger, recordVars, extVars>>

\* save_state(index)
save_state(index) == state_file' = index

\* The executor has drained: progress.stop(), save_state(max_index_completed),
\* output_writer.close(); main returns and the process exits.
Finish ==
    /\ pc_main = "running"
    /\ next_idx > NumRecords - 1
    /\ \A w \in Workers : pc[w] = "idle"
    /\ save_state(max_index_completed)
    /\ pc_main' = "done"
    /\ exit_code' = 0
    /\ UNCHANGED <<runs, start_index, next_idx, pc, cur, res, output, kept,
                   writer_lock, fate, sharedVars, recordVars, restVars>>

\* A process-level interrupt: the process ends where it is.  The files keep
\* what was flushed to them (a line whose flush had not happened is lost
\* with the file object's buffer); everything held in memory is gone.
Interrupt ==
    /\ pc_main = "running"
    /\ pc_main' = "killed"
    /\ start_index' = 0
    /\ next_idx' = 0
    /\ pc' = [w \in Workers |-> "idle"]
    /\ cur' = [w \in Workers |-> -1]
    /\ res' = [w \in Workers |-> "-"]
    /\ max_index_completed' = -1
    /\ kept' = [i \in Indexes |-> kept[i] + LinesIn(output, i)]
    /\ output' = <<>>
    /\ written_count' = 0
    /\ writer_lock' = 0
    /\ completed' = 0
    /\ fate' = [i \in Indexes |-> "-"]
    /\ UNCHANGED <<runs, state_file, retry_ledger, recordVars, extVars>>

Next ==
    \/ \E resume \in BOOLEAN : Main(resume)
    \/ \E w \in Workers : Process(w)
    \/ \E w \in Workers : WriteBegin(w)
    \/ \E w \in Workers : WriteEnd(w)
    \/ \E w \in Workers : Mark(w)
    \/ \E w \in Workers : Progress(w)
    \/ \E w \in Workers : Except(w)
    \/ Finish
    \/ Interrupt

Spec == Init /\ [][Next]_vars

\* One step of a pool thread.
WorkerStep(w) ==
    Process(w) \/ WriteBegin(w) \/ WriteEnd(w) \/ Mark(w) \/ Progress(w) \/ Except(w)

\* The pool with its scheduling: a thread that can take a step eventually
\* takes one, and main goes on once the executor block has ended.  Nothing
\* is assumed of the interrupt or of a later invocation.
SpecFair ==
    /\ Init /\ [][Next]_vars
    /\ \A w \in Workers : WF_vars(WorkerStep(w))
    /\ WF_vars(Finish)


\* ------------------------------------- SpecRecord: one process_and_write
\* One thread runs process_and_write((r_idx, r_rec)) in a fresh run
\* (start_index = 0), the collaborators answering as r_env says.
InitRecord ==
    /\ r_pc = "start"
    /\ r_idx \in Indexes
    /\ r_rec \in InputRecords
    /\ r_env \in Envs
    /\ r_res = NoResult
    /\ r_out = <<>>
    /\ max_index_completed = -1
    /\ written_count = 0
    /\ completed = 0
    /\ retry_ledger = <<>>
    /\ PoolIdle
    /\ ExtIdle

\* result = process_record(record, cost_tracker, refiner)
R_Process ==
    /\ r_pc = "start"
    /\ r_res' = process_record(r_rec, r_env)
    /\ r_pc' = AfterProcess(r_res'.ret)
    /\ UNCHANGED <<r_idx, r_rec, r_env, r_out, sharedVars, poolVars, extVars>>

\* if result: output_writer.write(result)
R_Write ==
    /\ r_pc = "write"
    /\ r_out' = Append(r_out, r_res.rec)
    /\ written_count' = written_count + 1
    /\ r_pc' = "mark"
    /\ UNCHANGED <<r_idx, r_rec, r_env, r_res, max_index_completed, completed,
                   retry_ledger, poolVars, extVars>>

\* with index_lock: max_index_completed = max(max_index_completed, index)
R_Mark ==
    /\ r_pc = "mark"
    /\ max_index_completed' = NewMax(max_index_completed, r_idx)
    /\ r_pc' = "progress"
    /\ UNCHANGED <<r_idx, r_rec, r_env, r_res, r_out, written_count, completed,
                   retry_ledger, poolVars, extVars>>

\* progress.increment(); process_and_write returns
R_Progress ==
    /\ r_pc = "progress"
    /\ completed' = increment(completed)
    /\ r_pc' = "returned"
    /\ UNCHANGED <<r_idx, r_rec, r_env, r_res, r_out, max_index_completed,
                   written_count, retry_ledger, poolVars, extVars>>

\* except Exception: logger.error(...); progress.increment()
R_Except ==
    /\ r_pc = "except"
    /\ completed' = increment(completed)
    /\ r_pc' = "returned"
    /\ UNCHANGED <<r_idx, r_rec, r_env, r_res, r_out, max_index_completed,
                   written_count, retry_ledger, poolVars, extVars>>

NextRecord == R_Process \/ R_Write \/ R_Mark \/ R_Progress \/ R_Except

SpecRecord == InitRecord /\ [][NextRecord]_vars


\* ------------------------------------------- SpecCost: the cost tracker
\* The pool threads run process_record on the records of the input; what is
\* followed here is the collaborator calls that report usage and the
\* cost_tracker.add that follows each of them.
TokenCounts == 0 .. MaxTokens

\* The sets of collaborators process_record can call for one record.
ProcessCalls == {process_record(r, e).calls : r \in InputRecords, e \in Envs}

\* The calls that return usage, in the order process_record makes them.
UsageCalls(calls) ==
    (IF "research" \in calls THEN <<"research">> ELSE <<>>)
    \o (IF "finalize" \in calls THEN <<"finalize">> ELSE <<>>)

InitCost ==
    /\ cost_lock = 0
    /\ cost_data = [s \in CostSteps |-> NoTokens]
    /\ c_left = NumRecords
    /\ c_pc = [w \in Workers |-> "idle"]
    /\ c_todo = [w \in Workers |-> <<>>]
    /\ c_arg = [w \in Workers |-> [step |-> "-", input |-> 0, output |-> 0]]
    /\ c_tmp = [w \in Workers |-> 0]
    /\ c_usage = [c \in Collaborators |-> NoTokens]
    /\ cost_keys = <<>>
    /\ cost_totals = [s \in CostSteps |-> {NoTokens}]
    /\ p_pc = "idle"
    /\ p_todo = <<>>
    /\ p_in = 0
    /\ p_seen = NothingSeen
    /\ PoolIdle
    /\ SharedIdle
    /\ RecordIdle
    /\ CrawlIdle
    /\ PlaceIdle
    /\ AuxIdle

\* A thread takes a record: the stages it will go through are fixed by the
\* record and by what the collaborators answer.
CostTake(w) ==
    /\ c_pc[w] = "idle"
    /\ c_todo[w] = <<>>
    /\ c_left > 0
    /\ c_left' = c_left - 1
    /\ \E calls \in ProcessCalls : c_todo' = [c_todo EXCEPT ![w] = UsageCalls(calls)]
    /\ UNCHANGED <<cost_lock, cost_data, c_pc, c_arg, c_tmp, c_usage, cost_keys,
                   cost_totals, reportVars, baseVars, crawlVars, placeVars, auxVars>>

\* record, usage = enrich_with_gemini(record) (or the finalizer): the call
\* returns its usage, a non-empty dict, and `if usage:` calls
\* cost_tracker.add with the step's name and the two token counts.
CostCall(w) ==
    /\ c_pc[w] = "idle"
    /\ c_todo[w] # <<>>
    /\ LET c == Head(c_todo[w]) IN
       \E i \in TokenCounts, o \in TokenCounts :
          /\ c_arg' = [c_arg EXCEPT ![w] = [step |-> CostStep(c), input |-> i, output |-> o]]
          /\ c_usage' = [c_usage EXCEPT ![c] = [input |-> @.input + i,
                                                output |-> @.output + o]]
    /\ c_todo' = [c_todo EXCEPT ![w] = Tail(@)]
    /\ c_pc' = [c_pc EXCEPT ![w] = "add"]
    /\ UNCHANGED <<cost_lock, cost_data, c_left, c_tmp, cost_keys, cost_totals,
                   reportVars, baseVars, crawlVars, placeVars, auxVars>>

\* CostLockFree for a tracker that takes no lock.
CostLockFree_NoLock(lock) == TRUE

\* `with self._lock:` of ThreadSafeCostTracker.add
CostLockFree(lock) == lock = 0

\* dict.__missing__ of the defaultdict: a step read for the first time gets
\* its {"input": 0, "output": 0} and becomes the last key of _data.
WithKey(keys, step) ==
    IF \E k \in DOMAIN keys : keys[k] = step THEN keys ELSE Append(keys, step)

\* add: the lock is taken and _data[step]["input"] is read.
CostAddBegin(w) ==
    /\ c_pc[w] = "add"
    /\ CostLockFree(cost_lock)
    /\ cost_lock' = w
    /\ cost_keys' = WithKey(cost_keys, c_arg[w].step)
    /\ c_tmp' = [c_tmp EXCEPT ![w] = cost_data[c_arg[w].step].input]
    /\ c_pc' = [c_pc EXCEPT ![w] = "add_input"]
    /\ UNCHANGED <<cost_data, c_left, c_todo, c_arg, c_usage, cost_totals,
                   reportVars, baseVars, crawlVars, placeVars, auxVars>>

\* add: _data[step]["input"] is stored.
CostAddInput(w) ==
    /\ c_pc[w] = "add_input"
    /\ cost_data' = [cost_data EXCEPT ![c_arg[w].step].input =
                        c_tmp[w] + c_arg[w].input]
    /\ c_pc' = [c_pc EXCEPT ![w] = "add_output"]
    /\ UNCHANGED <<cost_lock, c_left, c_todo, c_arg, c_tmp, c_usage, cost_keys,
                   cost_totals, reportVars, baseVars, crawlVars, placeVars,
                   auxVars>>

\* add: _data[step]["output"] is read and stored, and the lock is released.
\* No other writer runs on _data between the two while the lock is held.
CostAddEnd(w) ==
    /\ c_pc[w] = "add_output"
    /\ cost_data' = [cost_data EXCEPT ![c_arg[w].step].output =
                        @ + c_arg[w].output]
    /\ cost_totals' = [cost_totals EXCEPT ![c_arg[w].step] =
                          @ \cup {cost_data'[c_arg[w].step]}]
    /\ cost_lock' = 0
    /\ c_pc' = [c_pc EXCEPT ![w] = "idle"]
    /\ c_arg' = [c_arg EXCEPT ![w] = [step |-> "-", input |-> 0, output |-> 0]]
    /\ c_tmp' = [c_tmp EXCEPT ![w] = 0]
    /\ UNCHANGED <<c_left, c_todo, c_usage, cost_keys, reportVars, baseVars,
                   crawlVars, placeVars, auxVars>>

\* What dict(self._data) copies: the keys, each with a reference to the
\* step's own {"input", "output"} dict, which add goes on updating.
SnapshotItems(keys) == keys

\* _print_progress: cost_snapshot = self._cost_tracker.get_snapshot().  The
\* copy is made with the tracker's lock held.
ReportSnapshot ==
    /\ p_pc = "idle"
    /\ CostLockFree(cost_lock)
    /\ p_todo' = SnapshotItems(cost_keys)
    /\ p_pc' = IF cost_keys = <<>> THEN "idle" ELSE "input"
    /\ p_in' = 0
    /\ p_seen' = NothingSeen
    /\ UNCHANGED <<cost_lock, cost_data, c_left, c_pc, c_todo, c_arg, c_tmp,
                   c_usage, cost_keys, cost_totals, baseVars, crawlVars,
                   placeVars, auxVars>>

\* _calculate_cost: tokens["input"] of the next item is read, with no lock.
ReportInput ==
    /\ p_pc = "input"
    /\ p_in' = cost_data[Head(p_todo)].input
    /\ p_pc' = "output"
    /\ UNCHANGED <<cost_lock, cost_data, c_left, c_pc, c_todo, c_arg, c_tmp,
                   c_usage, cost_keys, cost_totals, p_todo, p_seen, baseVars,
                   crawlVars, placeVars, auxVars>>

\* _calculate_cost: tokens["output"] of the same item is read, with no lock;
\* after the last item the report is printed.
ReportOutput ==
    /\ p_pc = "output"
    /\ p_seen' = [step |-> Head(p_todo), input |-> p_in,
                  output |-> cost_data[Head(p_todo)].output]
    /\ p_todo' = Tail(p_todo)
    /\ p_pc' = IF Tail(p_todo) = <<>> THEN "idle" ELSE "input"
    /\ UNCHANGED <<cost_lock, cost_data, c_left, c_pc, c_todo, c_arg, c_tmp,
                   c_usage, cost_keys, cost_totals, p_in, baseVars, crawlVars,
                   placeVars, auxVars>>

NextCost ==
    \/ \E w \in Workers : CostTake(w)
    \/ \E w \in Workers : CostCall(w)
    \/ \E w \in Workers : CostAddBegin(w)
    \/ \E w \in Workers : CostAddInput(w)
    \/ \E w \in Workers : CostAddEnd(w)
    \/ ReportSnapshot
    \/ ReportInput
    \/ ReportOutput

SpecCost == InitCost /\ [][NextCost]_vars


\* ----------------------------------------------- SpecCrawl: scrape_async
\* Several threads, each with its own WebsiteScraper, call
\* scrape(start_url) once for the same domain and share the content store
\* on disk.  A thread that calls after another has returned is a later,
\* sequential crawl.  The web answers the same way every time.
InitCrawl ==
    /\ web_site \in Sites
    /\ web_files \in SiteFiles(web_site)
    /\ web_down \in SiteDown(web_site)
    /\ root_urls = {start_url}
    /\ DiskEmpty
    /\ CrawlersIdle
    /\ CostIdle
    /\ PlaceIdle
    /\ AuxIdle
    /\ PoolIdle
    /\ SharedIdle
    /\ RecordIdle

\* The asset a crawler is handling and the path it is saved at.
CurAsset(k) == Head(k_todo[k])
CurPath(k) == AssetName(CurAsset(k).type, CurAsset(k).src)

\* Crawls under way: between the manifest check and the return.
Crawling(k) == k_pc[k] \notin {"idle", "returned", "raised"}

\* scrape(url) is called: the domain's directories are made, and
\* if os.path.exists(manifest_path): return json.load(f).  A file that has
\* been opened for writing and not yet written makes json.load raise.
\* Otherwise the crawl starts with the start URL at depth 0.
CrawlCall(k) ==
    /\ k_pc[k] = "idle"
    /\ k_before' = [k_before EXCEPT ![k] = disk_manifest]
    /\ \E url \in root_urls : k_url' = [k_url EXCEPT ![k] = url]
    /\ k_alone' = [k_alone EXCEPT ![k] = \A j \in Crawlers \ {k} : ~Crawling(j)]
    /\ IF ManifestHit(disk_manifest)
       THEN /\ IF disk_manifest = Truncated
               THEN /\ k_pc' = [k_pc EXCEPT ![k] = "raised"]
                    /\ UNCHANGED k_result
               ELSE /\ k_pc' = [k_pc EXCEPT ![k] = "returned"]
                    /\ k_result' = [k_result EXCEPT ![k] = json_load(disk_manifest)]
            /\ UNCHANGED queue
       ELSE /\ k_pc' = [k_pc EXCEPT ![k] = "loop"]
            /\ queue' = [queue EXCEPT ![k] = <<<<k_url'[k], 0>>>>]
            /\ UNCHANGED k_result
    /\ UNCHANGED <<webVars, disk_files, disk_manifest, clock, visited_urls,
                   k_depths, collected_assets, k_page, k_todo, k_loads,
                   k_downloads, baseVars, costVars, placeVars, auxVars>>

\* PageExcept that lets the exception out of scrape_async.
PageExcept_Raise == "raised"

\* except Exception as e: logger.warning(...): the page is left and the
\* while loop goes on.
PageExcept == "loop"

\* if depth < self.max_depth
DepthAllowsLinks(depth) == depth < max_depth

\* The queue when the body of the loop has ended: after a page whose assets
\* are done, its links have been filtered and queued.
QueueAfterPage(k) ==
    IF k_pc[k] = "assets" /\ DepthAllowsLinks(k_page[k][2])
    THEN QueueLinks(SitePage(web_site, k_page[k][1].path).links, queue[k],
                    visited_urls[k], k_page[k][2], _get_domain(k_url[k]))
    ELSE queue[k]

\* The images and PDF links of a page whose URL starts with http
\* (`if not src or not src.startswith('http'): continue`), in the order the
\* two loops go through them.
PageAssets(page) ==
    SelectSeq([i \in DOMAIN page.images |-> [type |-> "image", src |-> page.images[i]]]
              \o [i \in DOMAIN page.pdfs |-> [type |-> "pdf", src |-> page.pdfs[i]]],
              LAMBDA a : a.src.scheme = "http")

\* The end of one pass of the while loop (the links of the page) and the
\* start of the next: the next URL is popped, skipped if visited, else
\* added to visited_urls and loaded.  A page that fails to load is left by
\* the except clause; of one that loads the text is saved (if longer than
\* 100 characters) and the images and PDF links are listed.  When the loop
\* ends the browser is closed.
CrawlLoop(k) ==
    /\ \/ k_pc[k] = "loop"
       \/ k_pc[k] = "assets" /\ k_todo[k] = <<>>
    /\ LET q == QueueAfterPage(k) IN
       IF LoopContinues(q, visited_urls[k])
       THEN LET current_url == Head(q)[1]
                depth == Head(q)[2]
                page == SitePage(web_site, current_url.path)
            IN /\ queue' = [queue EXCEPT ![k] = Tail(q)]
               /\ IF current_url \in visited_urls[k]
                  THEN /\ k_pc' = [k_pc EXCEPT ![k] = "loop"]
                       /\ UNCHANGED <<visited_urls, k_depths, collected_assets,
                                      k_page, k_todo, k_loads>>
                  ELSE /\ visited_urls' = [visited_urls EXCEPT ![k] = @ \cup {current_url}]
                       /\ k_depths' = [k_depths EXCEPT ![k] = @ \cup {<<current_url, depth>>}]
                       /\ k_loads' = [k_loads EXCEPT ![k] = @ + 1]
                       /\ IF current_url.path \in web_down
                          THEN /\ k_pc' = [k_pc EXCEPT ![k] = PageExcept]
                               /\ UNCHANGED <<collected_assets, k_page, k_todo>>
                          ELSE /\ k_pc' = [k_pc EXCEPT ![k] = "assets"]
                               /\ k_page' = [k_page EXCEPT ![k] = <<current_url, depth>>]
                               /\ collected_assets' =
                                     [collected_assets EXCEPT ![k] =
                                        IF page.text
                                        THEN Append(@, [type |-> "text",
                                                        original_url |-> current_url,
                                                        local_path |-> TextName(current_url)])
                                        ELSE @]
                               /\ k_todo' = [k_todo EXCEPT ![k] = PageAssets(page)]
       ELSE /\ k_pc' = [k_pc EXCEPT ![k] = "finish"]
            /\ queue' = [queue EXCEPT ![k] = q]
            /\ UNCHANGED <<visited_urls, k_depths, collected_assets, k_page,
                           k_todo, k_loads>>
    /\ UNCHANGED <<webVars, disk_files, disk_manifest, clock, k_before, k_url, k_alone,
                   k_downloads, k_result, baseVars, costVars, placeVars, auxVars>>

\* if not os.path.exists(save_path): ...   (an existing file is passed over)
AssetCheck(k) ==
    /\ k_pc[k] = "assets"
    /\ k_todo[k] # <<>>
    /\ IF disk_files[CurPath(k)] # NoFile
       THEN /\ k_todo' = [k_todo EXCEPT ![k] = Tail(@)]
            /\ UNCHANGED k_pc
       ELSE /\ k_pc' = [k_pc EXCEPT ![k] = "download"]
            /\ UNCHANGED k_todo
    /\ UNCHANGED <<webVars, disk_files, disk_manifest, clock, k_before, k_url, k_alone,
                   visited_urls, k_depths, queue, collected_assets, k_page,
                   k_loads, k_downloads, k_result, baseVars, costVars, placeVars, auxVars>>

\* _download_asset: the body of a 200 response is written to save_path.
AssetDownload(k) ==
    /\ k_pc[k] = "download"
    /\ k_downloads' = [k_downloads EXCEPT ![k] = @ + 1]
    /\ IF web_files[CurAsset(k).src] = NoFile
       THEN /\ k_pc' = [k_pc EXCEPT ![k] = "assets"]
            /\ k_todo' = [k_todo EXCEPT ![k] = Tail(@)]
            /\ UNCHANGED disk_files
       ELSE /\ k_pc' = [k_pc EXCEPT ![k] = "verify"]
            /\ disk_files' = [disk_files EXCEPT ![CurPath(k)] = web_files[CurAsset(k).src]]
            /\ UNCHANGED k_todo
    /\ UNCHANGED <<webVars, disk_manifest, clock, k_before, k_url, k_alone, visited_urls,
                   k_depths, queue, collected_assets, k_page, k_loads, k_result,
                   baseVars, costVars, placeVars, auxVars>>

\* _verify_asset(save_path, type): a verified asset is appended to
\* collected_assets, a rejected one is removed from disk.  When the file is
\* gone (another thread removed it) getsize fails, the asset is rejected and
\* os.remove raises: the except clause of the page is taken and the rest of
\* the page, its links included, is left out.
AssetVerify(k) ==
    /\ k_pc[k] = "verify"
    /\ LET file == disk_files[CurPath(k)] IN
       IF file = NoFile
       THEN /\ k_pc' = [k_pc EXCEPT ![k] = PageExcept]
            /\ k_todo' = [k_todo EXCEPT ![k] = <<>>]
            /\ UNCHANGED <<disk_files, collected_assets>>
       ELSE /\ k_pc' = [k_pc EXCEPT ![k] = "assets"]
            /\ k_todo' = [k_todo EXCEPT ![k] = Tail(@)]
            /\ IF _verify_asset(file, CurAsset(k).type)
               THEN /\ collected_assets' =
                          [collected_assets EXCEPT ![k] =
                              Append(@, [type |-> CurAsset(k).type,
                                         original_url |-> CurAsset(k).src,
                                         local_path |-> CurPath(k)])]
                    /\ UNCHANGED disk_files
               ELSE /\ disk_files' = [disk_files EXCEPT ![CurPath(k)] = NoFile]
                    /\ UNCHANGED collected_assets
    /\ UNCHANGED <<webVars, disk_manifest, clock, k_before, k_url, k_alone, visited_urls,
                   k_depths, queue, k_page, k_loads, k_downloads, k_result,
                   baseVars, costVars, placeVars, auxVars>>

\* After the loop: the assets are deduplicated, the result is built and
\* metadata.json is opened for writing.
CrawlFinish(k) ==
    /\ k_pc[k] = "finish"
    /\ k_pc' = [k_pc EXCEPT ![k] = "dump"]
    /\ LET unique_assets == DedupeAssets(collected_assets[k])
       IN k_result' = [k_result EXCEPT ![k] =
                         [root_url |-> k_url[k],
                          timestamp |-> clock,
                          pages_crawled |-> Cardinality(visited_urls[k]),
                          assets_found |-> Len(unique_assets),
                          assets |-> unique_assets]]
    /\ clock' = clock + 1
    /\ disk_manifest' = Truncated
    /\ UNCHANGED <<webVars, disk_files, k_before, k_url, k_alone, visited_urls, k_depths,
                   queue, collected_assets, k_page, k_todo, k_loads, k_downloads,
                   baseVars, costVars, placeVars, auxVars>>

\* json.dump(result, f); the file is closed and scrape returns result.
CrawlDump(k) ==
    /\ k_pc[k] = "dump"
    /\ k_pc' = [k_pc EXCEPT ![k] = "returned"]
    /\ disk_manifest' = json_dump(k_result[k])
    /\ UNCHANGED <<webVars, disk_files, clock, k_before, k_url, k_alone, visited_urls,
                   k_depths, queue, collected_assets, k_page, k_todo, k_loads,
                   k_downloads, k_result, baseVars, costVars, placeVars, auxVars>>

NextCrawl ==
    \/ \E k \in Crawlers : CrawlCall(k)
    \/ \E k \in Crawlers : CrawlLoop(k)
    \/ \E k \in Crawlers : AssetCheck(k)
    \/ \E k \in Crawlers : AssetDownload(k)
    \/ \E k \in Crawlers : AssetVerify(k)
    \/ \E k \in Crawlers : CrawlFinish(k)
    \/ \E k \in Crawlers : CrawlDump(k)

SpecCrawl == InitCrawl /\ [][NextCrawl]_vars

\* A call of scrape that has neither returned nor raised can take a step:
\* CrawlCall when idle, CrawlLoop in the loop and after the last asset of a
\* page, and the step of its position otherwise.
CrawlerCanMove(k) == k_pc[k] \notin {"returned", "raised"}

\* Call k has taken a step: every step moves its position, its list of
\* assets to do, its queue or its page.
CrawlerMoves(k) ==
    \/ k_pc'[k] # k_pc[k]
    \/ k_todo'[k] # k_todo[k]
    \/ queue'[k] # queue[k]
    \/ k_page'[k] # k_page[k]

\* Every call of scrape runs in a thread of its own (asyncio.run in the
\* pool thread of its record) and page loads and downloads carry timeouts:
\* a call that can take a step takes it.  This is weak fairness of the
\* steps of each call, WF_vars(step of k), with ENABLED written out as
\* CrawlerCanMove(k).
SpecCrawlFair ==
    /\ InitCrawl /\ [][NextCrawl]_vars
    /\ \A k \in Crawlers :
          \/ []<>(~CrawlerCanMove(k))
          \/ []<><<CrawlerMoves(k)>>_vars


\* ------------------------------------------- a crawl with no other caller
\* The passes of the asset loops over one page when no other thread
\* touches the assets directory: the collected assets and the paths left
\* on disk.
RECURSIVE SoloAssets(_, _, _)
SoloAssets(todo, assets, paths) ==
    IF todo = <<>>
    THEN [assets |-> assets, paths |-> paths]
    ELSE LET asset == Head(todo)
             path == AssetName(asset.type, asset.src)
         IN IF path \in paths \/ web_files[asset.src] = NoFile
            THEN SoloAssets(Tail(todo), assets, paths)
            ELSE IF _verify_asset(web_files[asset.src], asset.type)
                 THEN SoloAssets(Tail(todo),
                                 Append(assets, [type |-> asset.type,
                                                 original_url |-> asset.src,
                                                 local_path |-> path]),
                                 paths \cup {path})
                 ELSE SoloAssets(Tail(todo), assets, paths)

\* The while loop of scrape_async run from a state of the queue to its
\* end by one thread alone, and the deduplication that follows it: the
\* assets of the manifest.
RECURSIVE SoloLoop(_, _, _, _)
SoloLoop(q, visited, assets, paths) ==
    IF ~LoopContinues(q, visited)
    THEN DedupeAssets(assets)
    ELSE LET current_url == Head(q)[1]
             depth == Head(q)[2]
             page == SitePage(web_site, current_url.path)
             seen == visited \cup {current_url}
         IN IF current_url \in visited
            THEN SoloLoop(Tail(q), visited, assets, paths)
            ELSE IF current_url.path \in web_down
                 THEN SoloLoop(Tail(q), seen, assets, paths)
                 ELSE LET texted == IF page.text
                                    THEN Append(assets, [type |-> "text",
                                                         original_url |-> current_url,
                                                         local_path |-> TextName(current_url)])
                                    ELSE assets
                          got == SoloAssets(PageAssets(page), texted, paths)
                          q2 == IF DepthAllowsLinks(depth)
                                THEN QueueLinks(page.links, Tail(q), seen, depth,
                                                _get_domain(start_url))
                                ELSE Tail(q)
                      IN SoloLoop(q2, seen, got.assets, got.paths)

\* The assets a single crawl of the domain puts in its manifest, the
\* content store being empty when it starts.
SoloCrawl == SoloLoop(<<<<start_url, 0>>>>, {}, <<>>, {})

\* The source URLs of a list of assets.
AssetUrls(assets) == {assets[i].original_url : i \in DOMAIN assets}

\* ------------------------------ SpecRecrawl: a domain crawled before
\* The images and documents of the sites.
SiteAssets == {[type |-> "image", src |-> ImageX],
               [type |-> "image", src |-> ImageInline],
               [type |-> "pdf", src |-> PdfD]}

\* The assets an earlier crawl can have downloaded, verified and kept.
Keepable(served) ==
    {a \in SiteAssets : /\ a.src.scheme = "http"
                        /\ served[a.src] # NoFile
                        /\ _verify_asset(served[a.src], a.type)}

\* The assets directories an earlier crawl of the domain leaves when the
\* process is interrupted before the manifest is opened for writing: some
\* of the verified files, none included.
LeftBehind(served) ==
    {[path \in DiskPaths |->
        IF \E a \in left : AssetName(a.type, a.src) = path
        THEN served[(CHOOSE a \in left : AssetName(a.type, a.src) = path).src]
        ELSE NoFile] : left \in SUBSET Keepable(served)}

\* The crawlers are called with one or the other spelling of the site's
\* root URL; the content store is as an interrupted crawl left it.
InitRecrawl ==
    /\ web_site \in Sites
    /\ web_files \in SiteFiles(web_site)
    /\ web_down \in SiteDown(web_site)
    /\ root_urls = {start_url, www_url}
    /\ disk_files \in LeftBehind(web_files)
    /\ disk_manifest = NoManifest
    /\ clock = 0
    /\ CrawlersIdle
    /\ CostIdle
    /\ PlaceIdle
    /\ AuxIdle
    /\ PoolIdle
    /\ SharedIdle
    /\ RecordIdle

SpecRecrawl == InitRecrawl /\ [][NextCrawl]_vars

\* ------------------------------------- SpecPlaces: find_and_enrich's cache
\* Several threads call find_and_enrich for records that give the same
\* query.  The directory answers every thread alike: no place, a place that
\* fails _is_valid_match against the record, or one that passes it, with a
\* location (a street view image) and g_photos photos.
Places == {"none", "mismatch", "match"}
PhotoCounts == 0 .. MaxPhotos

\* _is_valid_match that accepts whatever the cache or the directory holds.
_is_valid_match_Always(google_data) == TRUE

\* _is_valid_match(record, google_data, full_query)
_is_valid_match(google_data) == google_data.place = "match"

\* structured_data when every image was saved: street_view_path and the
\* paths of the photos, in order.
FullDetails ==
    Entry("OK", "-", g_place, TRUE, [i \in 1 .. g_photos |-> i])

\* What the cache file may hold before the first call: nothing, a marker,
\* or the place's details cached by an earlier run.
InitialCaches(place, photos) ==
    {NoEntry, NotFound("searched_query")}
    \cup (IF place = "none" THEN {}
          ELSE {Entry("OK", "-", place, TRUE, [i \in 1 .. photos |-> i])})

InitPlaces ==
    /\ g_place \in Places
    /\ g_photos \in (IF g_place = "none" THEN {0} ELSE PhotoCounts)
    /\ g_cache0 \in InitialCaches(g_place, g_photos)
    /\ cache_file = g_cache0
    /\ image_dir = IF g_cache0.status = "OK"
                   THEN [exists |-> TRUE, files |-> 0 .. g_photos]
                   ELSE NoDir
    /\ g_pc = [w \in Workers |-> "idle"]
    /\ g_details = [w \in Workers |-> NoEntry]
    /\ g_next = [w \in Workers |-> 0]
    /\ g_entry = [w \in Workers |-> NoEntry]
    /\ g_lookups = [w \in Workers |-> 0]
    /\ g_verdict = [w \in Workers |-> NoVerdict]
    /\ g_faults = 0
    /\ g_seen = [w \in Workers |-> {}]
    /\ CostIdle
    /\ CrawlIdle
    /\ AuxIdle
    /\ PoolIdle
    /\ SharedIdle
    /\ RecordIdle

\* find_and_enrich returns None, or the record with google_data set, or
\* (after the except clause) the record as it was.
ReturnNone == [ret |-> "None", google_data |-> NoEntry]
ReturnEnriched(details) == [ret |-> "record", google_data |-> details]
ReturnRecord == [ret |-> "record", google_data |-> NoEntry]

\* CachedNotFound that takes no entry for a marker.
CachedNotFound_Never(cached_data) == FALSE

\* cached_data.get("status") == "NOT_FOUND"
CachedNotFound(cached_data) == cached_data.status = "NOT_FOUND"

\* The cache is read: a missing file, or one json.load fails on, is a miss.
\* A cached NOT_FOUND returns None; cached details that pass
\* _is_valid_match are returned in the record; cached details that fail it
\* are to be replaced by a marker.
PlaceCacheRead(w) ==
    /\ g_pc[w] = "idle"
    /\ g_seen' = [g_seen EXCEPT ![w] = {v \in Workers : g_pc[v] = "returned"}]
    /\ CASE cache_file.status \in {"absent", "empty"} ->
              /\ g_pc' = [g_pc EXCEPT ![w] = "search"]
              /\ UNCHANGED <<g_entry, g_verdict>>
         [] CachedNotFound(cache_file) ->
              /\ g_pc' = [g_pc EXCEPT ![w] = "returned"]
              /\ g_verdict' = [g_verdict EXCEPT ![w] = ReturnNone]
              /\ UNCHANGED g_entry
         [] OTHER ->
              IF _is_valid_match(cache_file)
              THEN /\ g_pc' = [g_pc EXCEPT ![w] = "returned"]
                   /\ g_verdict' = [g_verdict EXCEPT ![w] = ReturnEnriched(cache_file)]
                   /\ UNCHANGED g_entry
              ELSE /\ g_pc' = [g_pc EXCEPT ![w] = "open"]
                   /\ g_entry' = [g_entry EXCEPT ![w] = NotFound("mismatch_cached")]
                   /\ g_verdict' = [g_verdict EXCEPT ![w] = ReturnNone]
    /\ UNCHANGED <<g_place, g_photos, g_cache0, g_faults, cache_file, image_dir, g_details,
                   g_next, g_lookups, baseVars, costVars, crawlVars, auxVars>>

\* The remote calls an action may see fail: none once MaxFaults have failed.
Faults(kinds) == IF g_faults < MaxFaults THEN {"none"} \cup kinds ELSE {"none"}

\* _search_place: a place id, or None and a marker is to be cached.  When
\* the request raises, find_and_enrich logs the error and returns the
\* record as it was, the cache untouched.
PlaceSearch(w) ==
    /\ g_pc[w] = "search"
    /\ g_lookups' = [g_lookups EXCEPT ![w] = @ + 1]
    /\ \E fault \in Faults({"error"}) :
          IF fault = "error"
          THEN /\ g_faults' = g_faults + 1
               /\ g_pc' = [g_pc EXCEPT ![w] = "returned"]
               /\ g_verdict' = [g_verdict EXCEPT ![w] = ReturnRecord]
               /\ UNCHANGED g_entry
          ELSE /\ UNCHANGED g_faults
               /\ IF g_place = "none"
                  THEN /\ g_pc' = [g_pc EXCEPT ![w] = "open"]
                       /\ g_entry' = [g_entry EXCEPT ![w] = NotFound("searched_query")]
                       /\ g_verdict' = [g_verdict EXCEPT ![w] = ReturnNone]
                  ELSE /\ g_pc' = [g_pc EXCEPT ![w] = "details"]
                       /\ UNCHANGED <<g_entry, g_verdict>>
    /\ UNCHANGED <<g_place, g_photos, g_cache0, g_seen, cache_file, image_dir,
                   g_details, g_next, baseVars, costVars, crawlVars, auxVars>>

\* _get_place_details: the details are fetched and
\* `if os.path.exists(image_dir)` is evaluated.  When the request raises,
\* or the answer's status is not OK (details is None), find_and_enrich
\* returns the record as it was, the cache untouched.
PlaceDetails(w) ==
    /\ g_pc[w] = "details"
    /\ \E fault \in Faults({"error", "no_details"}) :
          IF fault # "none"
          THEN /\ g_faults' = g_faults + 1
               /\ g_pc' = [g_pc EXCEPT ![w] = "returned"]
               /\ g_verdict' = [g_verdict EXCEPT ![w] = ReturnRecord]
          ELSE /\ g_pc' = [g_pc EXCEPT ![w] =
                             IF image_dir.exists THEN "rmtree" ELSE "makedirs"]
               /\ UNCHANGED <<g_faults, g_verdict>>
    /\ UNCHANGED <<g_place, g_photos, g_cache0, g_seen, cache_file, image_dir,
                   g_details, g_next, g_entry, g_lookups, baseVars, costVars,
                   crawlVars, auxVars>>

\* shutil.rmtree(image_dir): the directory goes with all it holds.  If it
\* is gone already rmtree raises, find_and_enrich logs the error and
\* returns the record as it was.
PlaceRmTree(w) ==
    /\ g_pc[w] = "rmtree"
    /\ IF image_dir.exists
       THEN /\ image_dir' = NoDir
            /\ g_pc' = [g_pc EXCEPT ![w] = "makedirs"]
            /\ UNCHANGED g_verdict
       ELSE /\ g_pc' = [g_pc EXCEPT ![w] = "returned"]
            /\ g_verdict' = [g_verdict EXCEPT ![w] = ReturnRecord]
            /\ UNCHANGED image_dir
    /\ UNCHANGED <<g_place, g_photos, g_cache0, g_faults, g_seen, cache_file, g_details, g_next,
                   g_entry, g_lookups, baseVars, costVars, crawlVars, auxVars>>

\* os.makedirs(image_dir, exist_ok=True); structured_data is set up.
PlaceMakeDirs(w) ==
    /\ g_pc[w] = "makedirs"
    /\ g_pc' = [g_pc EXCEPT ![w] = "images"]
    /\ image_dir' = [image_dir EXCEPT !.exists = TRUE]
    /\ g_details' = [g_details EXCEPT ![w] = Entry("OK", "-", g_place, FALSE, <<>>)]
    /\ g_next' = [g_next EXCEPT ![w] = 0]
    /\ UNCHANGED <<g_place, g_photos, g_cache0, g_faults, g_seen, cache_file, g_entry, g_lookups,
                   g_verdict, baseVars, costVars, crawlVars, auxVars>>

\* The details with one more image, if _download_and_process_image saved it.
WithImage(details, i, saved) ==
    IF ~saved THEN details
    ELSE IF i = 0 THEN [details EXCEPT !.street_view = TRUE]
    ELSE [details EXCEPT !.photos = Append(@, i)]

\* One call of _download_and_process_image: image 0 is the street view,
\* the others the photos.  image.save fails when the directory is gone; the
\* failure is logged and the path left out of structured_data.  After the
\* last image the details are returned and checked with _is_valid_match.
PlaceImage(w) ==
    /\ g_pc[w] = "images"
    /\ LET saved == image_dir.exists
           details == WithImage(g_details[w], g_next[w], saved)
       IN /\ image_dir' = IF saved
                          THEN [image_dir EXCEPT !.files = @ \cup {g_next[w]}]
                          ELSE image_dir
          /\ g_details' = [g_details EXCEPT ![w] = details]
          /\ IF g_next[w] < g_photos
             THEN /\ g_next' = [g_next EXCEPT ![w] = @ + 1]
                  /\ UNCHANGED <<g_pc, g_entry, g_verdict>>
             ELSE /\ g_pc' = [g_pc EXCEPT ![w] = "open"]
                  /\ UNCHANGED g_next
                  /\ IF _is_valid_match(details)
                     THEN /\ g_entry' = [g_entry EXCEPT ![w] = details]
                          /\ g_verdict' = [g_verdict EXCEPT ![w] = ReturnEnriched(details)]
                     ELSE /\ g_entry' = [g_entry EXCEPT ![w] = NotFound("mismatch")]
                          /\ g_verdict' = [g_verdict EXCEPT ![w] = ReturnNone]
    /\ UNCHANGED <<g_place, g_photos, g_cache0, g_faults, g_seen, cache_file, g_lookups, baseVars,
                   costVars, crawlVars, auxVars>>

\* open(cache_path, "w"): the file is there and empty.
PlaceCacheOpen(w) ==
    /\ g_pc[w] = "open"
    /\ g_pc' = [g_pc EXCEPT ![w] = "dump"]
    /\ cache_file' = EmptyEntry
    /\ UNCHANGED <<g_place, g_photos, g_cache0, g_faults, g_seen, image_dir, g_details, g_next,
                   g_entry, g_lookups, g_verdict, baseVars, costVars, crawlVars, auxVars>>

\* json.dump(..., f), and find_and_enrich returns.
PlaceCacheDump(w) ==
    /\ g_pc[w] = "dump"
    /\ g_pc' = [g_pc EXCEPT ![w] = "returned"]
    /\ cache_file' = g_entry[w]
    /\ UNCHANGED <<g_place, g_photos, g_cache0, g_faults, g_seen, image_dir, g_details, g_next,
                   g_entry, g_lookups, g_verdict, baseVars, costVars, crawlVars, auxVars>>

NextPlaces ==
    \/ \E w \in Workers : PlaceCacheRead(w)
    \/ \E w \in Workers : PlaceSearch(w)
    \/ \E w \in Workers : PlaceDetails(w)
    \/ \E w \in Workers : PlaceRmTree(w)
    \/ \E w \in Workers : PlaceMakeDirs(w)
    \/ \E w \in Workers : PlaceImage(w)
    \/ \E w \in Workers : PlaceCacheOpen(w)
    \/ \E w \in Workers : PlaceCacheDump(w)

SpecPlaces == InitPlaces /\ [][NextPlaces]_vars

\* find_and_enrich run from the cache read to its return with no other
\* thread at work: what it returns and what it leaves in the cache.
ResolveAlone(cache) ==
    CASE cache.status = "NOT_FOUND" -> [verdict |-> ReturnNone, cache |-> cache]
      [] cache.status = "OK" ->
           IF _is_valid_match(cache)
           THEN [verdict |-> ReturnEnriched(cache), cache |-> cache]
           ELSE [verdict |-> ReturnNone, cache |-> NotFound("mismatch_cached")]
      [] OTHER ->
           IF g_place = "none"
           THEN [verdict |-> ReturnNone, cache |-> NotFound("searched_query")]
           ELSE IF _is_valid_match(FullDetails)
                THEN [verdict |-> ReturnEnriched(FullDetails), cache |-> FullDetails]
                ELSE [verdict |-> ReturnNone, cache |-> NotFound("mismatch")]

\* n calls of find_and_enrich one after the other: the verdicts returned
\* and the cache entry left.
RECURSIVE ResolveInTurn(_, _)
ResolveInTurn(cache, n) ==
    IF n = 0 THEN [verdicts |-> {}, cache |-> cache]
    ELSE LET first == ResolveAlone(cache)
             rest == ResolveInTurn(first.cache, n - 1)
         IN [verdicts |-> {first.verdict} \cup rest.verdicts, cache |-> rest.cache]

\* --------------------------------------- SpecMatch: the match validation
\* The names and addresses of the records and of the candidates the
\* directory returns for them.
RecordNames == {<<"k">>, <<"K">>, <<"1", "k">>, <<"z">>, <<"z", "k">>, <<>>}
GoogleNames == {<<"k">>, <<"k", "z">>, <<"z">>}
Addresses == {<<"1", " ", "m">>, <<"2", " ", "m">>, <<"m">>, <<>>}

InitMatch ==
    /\ m_pc = "start"
    /\ m_name \in RecordNames
    /\ m_addr \in Addresses
    /\ m_gname \in GoogleNames
    /\ m_gaddr \in Addresses
    /\ m_valid = FALSE
    /\ StartIdle
    /\ RetryIdle
    /\ LateIdle
    /\ CostIdle
    /\ CrawlIdle
    /\ PlaceIdle
    /\ PoolIdle
    /\ SharedIdle
    /\ RecordIdle

\* find_and_enrich builds the query and, having the candidate's details,
\* calls _is_valid_match(record, details, full_query); with an empty query
\* nothing is looked up.
MatchValidate ==
    /\ m_pc = "start"
    /\ m_pc' = "done"
    /\ m_valid' = /\ FullQuery(m_name, m_addr) # <<>>
                  /\ ValidMatch(m_name, m_addr, m_gname, m_gaddr)
    /\ UNCHANGED <<m_name, m_addr, m_gname, m_gaddr, startVars, retryVars,
                   lateVars, baseVars, costVars, crawlVars, placeVars>>

NextMatch == MatchValidate

SpecMatch == InitMatch /\ [][NextMatch]_vars


\* ------------------------------- SpecRetry: the two retried remote calls
\* process_record calls enrich_with_gemini and then
\* enrich_with_gemini_finalizer for one record and gives the usage each
\* returns to cost_tracker.add.  Every request to the model may fail.
MAX_RETRIES == 3
\* RETRY_BASE_DELAY = 1.0, in seconds
RETRY_BASE_DELAY == 1

\* Backoff with the same delay before every retry.
Backoff_Constant(attempt) == RETRY_BASE_DELAY

\* delay = RETRY_BASE_DELAY * (2 ** attempt)
Backoff(attempt) == RETRY_BASE_DELAY * 2 ^ attempt

\* What a caught failure of the call leaves in the record:
\* gemini_search_data = {"status": "ERROR", ...} and
\* finalized_record = {"error_crash": ...}.
CallFailed(stage) == IF stage = "research" THEN "ERROR" ELSE "error_crash"

\* What an unparseable response leaves in the record:
\* gemini_search_data = {"status": "FAILED_PARSE", ...} and
\* finalized_record = {"error": ...}.
ParseFailed(stage) == IF stage = "research" THEN "FAILED_PARSE" ELSE "error"

\* The responses a request may return: with usage_metadata and its token
\* counts, or without.
Responses ==
    [kind : {"usage"}, input : 0 .. MaxTokens, output : 0 .. MaxTokens]
    \cup {[kind |-> "no_usage", input |-> 0, output |-> 0]}

InitRetry ==
    /\ t_pc = "idle"
    /\ t_stage = <<"research", "finalize">>
    /\ t_attempt = 0
    /\ t_response = NoResponse
    /\ t_usage = NoTokens
    /\ t_log = [s \in Stages |-> <<>>]
    /\ t_delays = [s \in Stages |-> <<>>]
    /\ t_field = [s \in Stages |-> "absent"]
    /\ t_added = [s \in Stages |-> <<>>]
    /\ MatchIdle
    /\ StartIdle
    /\ LateIdle
    /\ CostIdle
    /\ CrawlIdle
    /\ PlaceIdle
    /\ PoolIdle
    /\ SharedIdle
    /\ RecordIdle

\* The stage is called.  Without a client (no API key) it returns the record
\* at once with a usage of zero tokens; else usage_stats is zeroed, the prompt
\* is built and the retry loop is entered with attempt = 0.
RetryCall ==
    /\ t_pc = "idle"
    /\ t_stage # <<>>
    /\ \E client \in BOOLEAN :
          t_pc' = IF client THEN "attempt" ELSE "return"
    /\ t_attempt' = 0
    /\ t_response' = NoResponse
    /\ t_usage' = NoTokens
    /\ UNCHANGED <<t_stage, t_log, t_delays, t_field, t_added, matchVars,
                   startVars, lateVars, baseVars, costVars,
                   crawlVars, placeVars>>

\* client.models.generate_content: a response ends the loop (break); an
\* exception is followed by a sleep if attempt < MAX_RETRIES - 1 and is
\* raised again otherwise, to be caught by the outer except clause of the
\* stage, which records the failure in the record.
RetryAttempt ==
    /\ t_pc = "attempt"
    /\ LET stage == Head(t_stage) IN
       \/ \E response \in Responses :
             /\ t_response' = response
             /\ t_log' = [t_log EXCEPT ![stage] = Append(@, "ok")]
             /\ t_pc' = "parse"
             /\ UNCHANGED t_field
       \/ /\ t_log' = [t_log EXCEPT ![stage] = Append(@, "fail")]
          /\ IF t_attempt < MAX_RETRIES - 1
             THEN /\ t_pc' = "sleep"
                  /\ UNCHANGED t_field
             ELSE /\ t_pc' = "return"
                  /\ t_field' = [t_field EXCEPT ![stage] = CallFailed(stage)]
          /\ UNCHANGED t_response
    /\ UNCHANGED <<t_stage, t_attempt, t_usage, t_delays, t_added, matchVars,
                   startVars, lateVars, baseVars, costVars,
                   crawlVars, placeVars>>

\* time.sleep(delay) and the next pass of `for attempt in range(MAX_RETRIES)`.
\* Were the range used up, response would still be None and reading
\* response.usage_metadata would raise into the outer except clause.
RetrySleep ==
    /\ t_pc = "sleep"
    /\ LET stage == Head(t_stage) IN
       /\ t_delays' = [t_delays EXCEPT ![stage] = Append(@, Backoff(t_attempt))]
       /\ t_attempt' = t_attempt + 1
       /\ IF t_attempt + 1 < MAX_RETRIES
          THEN /\ t_pc' = "attempt"
               /\ UNCHANGED t_field
          ELSE /\ t_pc' = "return"
               /\ t_field' = [t_field EXCEPT ![stage] = CallFailed(stage)]
    /\ UNCHANGED <<t_stage, t_response, t_usage, t_log, t_added, matchVars,
                   startVars, lateVars, baseVars, costVars,
                   crawlVars, placeVars>>

\* After the loop: usage_stats takes the token counts of the response when
\* it has usage_metadata, and the text is parsed; a text that does not parse
\* is recorded in the record.
RetryParse ==
    /\ t_pc = "parse"
    /\ t_usage' = IF t_response.kind = "usage"
                  THEN [input |-> t_response.input, output |-> t_response.output]
                  ELSE t_usage
    /\ \E parsed \in BOOLEAN :
          t_field' = [t_field EXCEPT ![Head(t_stage)] =
                         IF parsed THEN "ok" ELSE ParseFailed(Head(t_stage))]
    /\ t_pc' = "return"
    /\ UNCHANGED <<t_stage, t_attempt, t_response, t_log, t_delays, t_added,
                   matchVars, startVars, lateVars, baseVars, costVars,
                   crawlVars, placeVars>>

\* return record, usage_stats; process_record tests `if search_usage:`
\* (a dict with two keys: true whatever the counts) and calls
\* cost_tracker.add with the two counts, then goes on to the next stage.
RetryReturn ==
    /\ t_pc = "return"
    /\ t_added' = [t_added EXCEPT ![Head(t_stage)] = Append(@, t_usage)]
    /\ t_stage' = Tail(t_stage)
    /\ t_pc' = IF Tail(t_stage) = <<>> THEN "done" ELSE "idle"
    /\ UNCHANGED <<t_attempt, t_response, t_usage, t_log, t_delays, t_field,
                   matchVars, startVars, lateVars, baseVars, costVars,
                   crawlVars, placeVars>>

NextRetry ==
    \/ RetryCall
    \/ RetryAttempt
    \/ RetrySleep
    \/ RetryParse
    \/ RetryReturn

SpecRetry == InitRetry /\ [][NextRetry]_vars

\* ------------------------------ SpecLoad: the records main gives the pool
\* main() from the parsing of its arguments to executor.map: the start
\* index, the loop over the lines of INPUT_FILE and the submission of
\* records_to_process.
MaxLines == 3
MaxLimit == 2

\* A line of INPUT_FILE: a JSON value, a blank line, or text json.loads fails
\* on.
LineKinds == {"json", "blank", "bad"}

RECURSIVE SeqsUpTo(_, _)
SeqsUpTo(S, n) ==
    IF n = 0 THEN {<<>>}
    ELSE LET shorter == SeqsUpTo(S, n - 1)
         IN shorter \cup {Append(q, x) : q \in {r \in shorter : Len(r) = n - 1}, x \in S}

InputFiles == SeqsUpTo(LineKinds, MaxLines)

\* STATE_FILE: missing, text json.load fails on (an empty or half-written
\* file), an object without last_processed_index, or an object with it.
StateFiles ==
    [kind : {"missing", "undecodable", "no_key"}, index : {-1}]
    \cup [kind : {"index"}, index : -1 .. MaxLines]

\* load_state(): -1 without a file, on json.JSONDecodeError, and as the
\* default of state.get("last_processed_index", -1).
StateIndex(content) ==
    IF content.kind = "index" THEN content.index ELSE -1

\* Skipped with an index one too far.
Skipped_OneMore(i, start) == i <= start

\* if i < start_index: continue
Skipped(i, start) == i < start

\* if args.limit and len(records_to_process) >= args.limit: break
LimitReached(limit, records) == limit # 0 /\ Len(records) >= limit

InitLoad ==
    /\ l_pc = "start"
    /\ l_lines \in InputFiles
    /\ l_state \in StateFiles
    /\ l_resume \in BOOLEAN
    /\ l_limit \in 0 .. MaxLimit
    /\ l_start = 0
    /\ l_i = 0
    /\ l_records = <<>>
    /\ l_submitted = <<>>
    /\ ImageIdle
    /\ RankIdle
    /\ LimitIdle
    /\ MatchIdle
    /\ StartIdle
    /\ RetryIdle
    /\ CostIdle
    /\ CrawlIdle
    /\ PlaceIdle
    /\ PoolIdle
    /\ SharedIdle
    /\ RecordIdle

\* start_index = load_state() + 1 with --resume, 0 without.
LoadStart ==
    /\ l_pc = "start"
    /\ l_start' = IF l_resume THEN StateIndex(l_state) + 1 ELSE 0
    /\ l_pc' = "read"
    /\ UNCHANGED <<l_lines, l_state, l_resume, l_limit, l_i, l_records, l_submitted,
                   loadRest>>

\* One pass of `for i, line in enumerate(f)`: a line before start_index is
\* passed over; the loop is left when the limit is reached; a line that is
\* not blank and decodes is appended with its index.  After the last line,
\* or the break, main returns if there is nothing to process.
LoadLine ==
    /\ l_pc = "read"
    /\ IF l_i >= Len(l_lines) \/ (~Skipped(l_i, l_start) /\ LimitReached(l_limit, l_records))
       THEN /\ l_pc' = IF l_records = <<>> THEN "done" ELSE "submit"
            /\ UNCHANGED <<l_i, l_records>>
       ELSE /\ l_i' = l_i + 1
            /\ l_records' = IF ~Skipped(l_i, l_start) /\ l_lines[l_i + 1] = "json"
                            THEN Append(l_records, l_i)
                            ELSE l_records
            /\ UNCHANGED l_pc
    /\ UNCHANGED <<l_lines, l_state, l_resume, l_limit, l_start, l_submitted,
                   loadRest>>

\* executor.map(process_and_write, records_to_process): the pairs are
\* submitted in the order of the list.
LoadSubmit ==
    /\ l_pc = "submit"
    /\ IF Len(l_submitted) < Len(l_records)
       THEN /\ l_submitted' = Append(l_submitted, l_records[Len(l_submitted) + 1])
            /\ UNCHANGED l_pc
       ELSE /\ l_pc' = "done"
            /\ UNCHANGED l_submitted
    /\ UNCHANGED <<l_lines, l_state, l_resume, l_limit, l_start, l_i, l_records,
                   loadRest>>

NextLoad ==
    \/ LoadStart
    \/ LoadLine
    \/ LoadSubmit

SpecLoad == InitLoad /\ [][NextLoad]_vars


\* ------------------------------- SpecImage: one image, from download on
\* The image branch of scrape_async for one image that was downloaded:
\* _verify_asset, then _resize_image_if_needed and the entry in
\* collected_assets, or os.remove.
ImageWidths == {199, 200, 600, 1000, 1001, 1500, 2000, 3000}
ImageHeights == {199, 200, 333, 334, 500, 667, 1000, 3031}

\* The images the web may serve: large enough in bytes, of every width and
\* height above.
WebImages == {File(10240, w, h, TRUE) : w \in ImageWidths, h \in ImageHeights}

\* new_height = int(height * (1000 / width)); the image is saved as
\* 1000 x new_height.  On the sizes above the floating-point product
\* truncates to the integer quotient.
Resized(file) ==
    File(file.size, 1000, (file.height * 1000) \div file.width, file.readable)

\* if width > 1000
NeedsResize(file) == file.width > 1000

InitImage ==
    /\ i_pc = "downloaded"
    /\ i_file \in WebImages
    /\ i_listed = FALSE
    /\ LoadIdle
    /\ RankIdle
    /\ LimitIdle
    /\ MatchIdle
    /\ StartIdle
    /\ RetryIdle
    /\ CostIdle
    /\ CrawlIdle
    /\ PlaceIdle
    /\ PoolIdle
    /\ SharedIdle
    /\ RecordIdle

\* if self._verify_asset(save_path, "image"): ... else: os.remove(save_path)
ImageVerify ==
    /\ i_pc = "downloaded"
    /\ IF _verify_asset(i_file, "image")
       THEN /\ i_pc' = "verified"
            /\ UNCHANGED i_file
       ELSE /\ i_pc' = "rejected"
            /\ i_file' = NoFile
    /\ UNCHANGED <<i_listed, imageRest>>

\* self._resize_image_if_needed(save_path), whose result is not looked at,
\* and collected_assets.append(...).  An image wider than 1000 is resized
\* and saved over the file; when Pillow raises (it cannot write the image
\* in the format of the file name) the file stays as it was downloaded.
ImageResize ==
    /\ i_pc = "verified"
    /\ IF NeedsResize(i_file)
       THEN \E saved \in BOOLEAN :
               i_file' = IF saved THEN Resized(i_file) ELSE i_file
       ELSE UNCHANGED i_file
    /\ i_listed' = TRUE
    /\ i_pc' = "listed"
    /\ UNCHANGED imageRest

NextImage ==
    \/ ImageVerify
    \/ ImageResize

SpecImage == InitImage /\ [][NextImage]_vars


\* ------------------------------------------------ SpecRank: rank_images
\* One call of LocalRefiner.rank_images(image_paths, top_n) with the local
\* paths of the images of a manifest.
MaxPaths == 3
MaxTop == 2
ImagePaths == {"a", "b", "c"}

\* The orders a list built from a set may have.
Orders(S) ==
    {f \in [1 .. Cardinality(S) -> S] : \A i, j \in 1 .. Cardinality(S) : f[i] = f[j] => i = j}

\* unique_paths = list(set(image_paths)): the paths without duplicates, in
\* the iteration order of a set of strings, which depends on the hashes of
\* the strings (randomized per process) and not on the order of the list.
UniquePaths(paths) == Orders({paths[i] : i \in DOMAIN paths})

\* lst[:n]
FirstN(lst, n) == SubSeq(lst, 1, IF n < Len(lst) THEN n ELSE Len(lst))

InitRank ==
    /\ n_pc = "called"
    /\ n_paths \in SeqsUpTo(ImagePaths, MaxPaths)
    /\ n_good \in SUBSET ImagePaths
    /\ n_top \in 1 .. MaxTop
    /\ n_valid = <<>>
    /\ n_failed = FALSE
    /\ n_result = <<>>
    /\ LoadIdle
    /\ ImageIdle
    /\ LimitIdle
    /\ MatchIdle
    /\ StartIdle
    /\ RetryIdle
    /\ CostIdle
    /\ CrawlIdle
    /\ PlaceIdle
    /\ PoolIdle
    /\ SharedIdle
    /\ RecordIdle

\* From the call to the try block: an empty list is returned for an empty
\* input; the paths are deduplicated and those that do not exist or have at
\* most 5000 bytes are left out; without a path left, an empty list is
\* returned.
RankFilter ==
    /\ n_pc = "called"
    /\ \E unique_paths \in UniquePaths(n_paths) :
          LET valid_paths == SelectSeq(unique_paths, LAMBDA x : x \in n_good)
          IN /\ n_valid' = valid_paths
             /\ n_pc' = IF valid_paths = <<>> THEN "returned" ELSE "scoring"
    /\ UNCHANGED <<n_paths, n_good, n_top, n_failed, n_result, rankRest>>

\* The try block: the images that open are scored by CLIP, sorted by score
\* (any order of the loaded paths, the scores being what the model gives)
\* and the first top_n are returned; with no image that opens the result is
\* empty; when loading the model or scoring raises, valid_paths[:top_n] is
\* returned.
RankScore ==
    /\ n_pc = "scoring"
    /\ \/ /\ n_failed' = TRUE
          /\ n_result' = FirstN(n_valid, n_top)
       \/ /\ n_failed' = FALSE
          /\ \E loaded \in SUBSET {n_valid[i] : i \in DOMAIN n_valid} :
                \E scores \in Orders(loaded) :
                   n_result' = FirstN(scores, n_top)
    /\ n_pc' = "returned"
    /\ UNCHANGED <<n_paths, n_good, n_top, n_valid, rankRest>>

NextRank ==
    \/ RankFilter
    \/ RankScore

SpecRank == InitRank /\ [][NextRank]_vars

\* ----------------------------- SpecLimit: the length of the description
\* _enforce_length_limit is called with any description and returns.  A
\* string is written as its runs of equal characters, so that a text of 600
\* characters and more is one to three runs; the function works on the
\* characters' positions as str does.
MaxPieces == 3
Chars == {"a", " ", "."}
RunLengths == {1, 2, 149, 449, 598}
MaxLengths == {200, 600}
Run(ch, n) == [ch |-> ch, n |-> n]
Texts == SeqsUpTo({Run(ch, n) : ch \in Chars, n \in RunLengths}, MaxPieces)
Descriptions ==
    {[given |-> FALSE, runs |-> <<>>]} \cup {[given |-> TRUE, runs |-> t] : t \in Texts}

\* len(text)
RECURSIVE TextLen(_)
TextLen(text) == IF text = <<>> THEN 0 ELSE Head(text).n + TextLen(Tail(text))

\* text[:n]
RECURSIVE Slice(_, _)
Slice(text, n) ==
    IF text = <<>> \/ n <= 0 THEN <<>>
    ELSE IF Head(text).n <= n
         THEN <<Head(text)>> \o Slice(Tail(text), n - Head(text).n)
         ELSE <<Run(Head(text).ch, n)>>

\* text.rfind(ch): the index of the last ch of the text, -1 if there is none
RECURSIVE RFindFrom(_, _, _, _)
RFindFrom(text, ch, offset, found) ==
    IF text = <<>> THEN found
    ELSE RFindFrom(Tail(text), ch, offset + Head(text).n,
                   IF Head(text).ch = ch THEN offset + Head(text).n - 1 ELSE found)
rfind(text, ch) == RFindFrom(text, ch, 0, -1)

\* max(a, b, c)
Max3(a, b, c) ==
    IF a >= b /\ a >= c THEN a ELSE IF b >= c THEN b ELSE c

\* "..."
Ellipsis == <<Run(".", 3)>>

\* The part of max_length within which a sentence end is taken as the cut:
\* best_cut > max_length - 150
SentenceWindow == 150

\* _enforce_length_limit(text, record_id, max_length)
_enforce_length_limit(text, max_length) ==
    IF ~text.given \/ text.runs = <<>> THEN <<>>
    ELSE IF TextLen(text.runs) <= max_length THEN text.runs
    ELSE LET truncated == Slice(text.runs, max_length)
             best_cut == Max3(rfind(truncated, "."), rfind(truncated, "!"),
                              rfind(truncated, "?"))
             last_space == rfind(truncated, " ")
         IN IF best_cut > max_length - SentenceWindow
            THEN Slice(truncated, best_cut + 1)
            ELSE IF last_space # -1
                 THEN Slice(truncated, last_space) \o Ellipsis
                 ELSE truncated \o Ellipsis

InitLimit ==
    /\ e_pc = "called"
    /\ e_text \in Descriptions
    /\ e_max \in MaxLengths
    /\ e_result = <<>>
    /\ LoadIdle
    /\ ImageIdle
    /\ RankIdle
    /\ MatchIdle
    /\ StartIdle
    /\ RetryIdle
    /\ CostIdle
    /\ CrawlIdle
    /\ PlaceIdle
    /\ PoolIdle
    /\ SharedIdle
    /\ RecordIdle

\* "description": _enforce_length_limit(description, record.get("id"), 600)
EnforceLimit ==
    /\ e_pc = "called"
    /\ e_result' = _enforce_length_limit(e_text, e_max)
    /\ e_pc' = "returned"
    /\ UNCHANGED <<e_text, e_max, limitRest>>

NextLimit == EnforceLimit

SpecLimit == InitLimit /\ [][NextLimit]_vars


\* ================================================================ claims
Max(S) == CHOOSE x \in S : \A y \in S : y <= x

\* Indexes whose process_and_write has returned in the current run.
finished == {i \in Indexes : fate[i] # "-"}

\* ---------------------------------------------------------------- C1
\* C1 (as claimed; checked under Spec): when main has returned after the
\* pool processed at least one record, the saved checkpoint equals the
\* highest input index whose processing finished, whatever the completion
\* order and whatever the outcomes (written, dropped, failed).
C1_SavedCheckpointIsHighestFinished ==
    (pc_main = "done" /\ finished # {}) => state_file = Max(finished)

\* ---------------------------------------------------------------- C2
\* The record reached find_and_enrich and that call returned None: identity
\* resolution found no (valid) place.
R_IdentityNotFound ==
    /\ r_rec.shape = "dict"
    /\ find_and_enrich(r_rec, r_env).tag = "None"

\* The five ways of being dropped that the claim lists.
R_Dropped ==
    \/ R_IdentityNotFound
    \/ r_res.site \in {207, 213, 221, 279, 293}

\* C2 (as claimed; checked under SpecRecord): once a record that was dropped
\* (identity NotFound, status filter, no website, crawl failure, exception
\* inside process_record) has finished, max_index_completed is at least its
\* index.
C2_DroppedCountsAsCompleted ==
    (r_pc = "returned" /\ R_Dropped) => max_index_completed >= r_idx

\* ---------------------------------------------------------------- C3
\* C3 (checked under Spec): within one run max_index_completed starts at
\* start_index - 1, is never below it, and no step of the run decreases it.
C3_CheckpointNeverDecreases ==
    /\ [](pc_main = "running" => max_index_completed >= start_index - 1)
    /\ [][(pc_main = "running" /\ pc_main' = "running")
            => max_index_completed' >= max_index_completed]_vars

\* A lower index has just passed the checkpoint update after a higher one.
C3_Witness ==
    \E w \in Workers : pc[w] = "progress" /\ cur[w] < max_index_completed

\* ---------------------------------------------------------------- C4
\* C4 (as claimed; checked under Spec): whenever a record has just passed the
\* checkpoint update, the persisted last_processed_index equals the
\* in-memory max_index_completed.
C4_PersistedAfterEachCompletion ==
    \A w \in Workers : pc[w] = "progress" => state_file = max_index_completed

WholeLines(file) ==
    \A k \in DOMAIN file :
        IF file[k].part = "body"
        THEN IF k < Len(file)
             THEN file[k + 1] = [idx |-> file[k].idx, part |-> "nl"]
             ELSE /\ writer_lock \in Workers
                  /\ pc[writer_lock] = "writing"
                  /\ cur[writer_lock] = file[k].idx
        ELSE k > 1 /\ file[k - 1] = [idx |-> file[k].idx, part |-> "body"]

\* C6 (checked under Spec): in one run, under any interleaving, the output
\* receives exactly one whole line for every finished record for which
\* process_record returned a record, none for any other finished record, the
\* lines of different workers are not interleaved, and the written count is
\* the number of lines output.
C6_OneWholeLinePerEnrichedRecord ==
    pc_main \in {"running", "done"} =>
        /\ WholeLines(output)
        /\ \A i \in Indexes :
              /\ fate[i] = "record" => LinesIn(output, i) = 1
              /\ fate[i] \in {"None", "raise"} => LinesIn(output, i) = 0
              /\ LinesIn(output, i) <= 1
        /\ written_count = Cardinality({k \in DOMAIN output : output[k].part = "nl"})

\* A run has ended with a written record and a dropped one.
C6_Witness ==
    /\ pc_main = "done"
    /\ \E i, j \in Indexes : fate[i] = "record" /\ fate[j] = "None"
    /\ written_count >= 1

\* ---------------------------------------------------------------- C7
\* The final synthesis was called and failed: the call failed after its
\* retries ("error") or its response could not be parsed ("parse_fail").
R_SynthesisFailed ==
    /\ "finalize" \in r_res.calls
    /\ r_env.final \in {"parse_fail", "error"}

R_ResearchFailed ==
    /\ "research" \in r_res.calls
    /\ r_env.research = "error"

\* The retry ledger the claim describes: one entry per failed stage, holding
\* the record as it was read from the input.
R_ExpectedRetries ==
    (IF R_ResearchFailed
     THEN <<[original_record |-> r_rec, failing_stage |-> "research"]>> ELSE <<>>)
    \o (IF R_SynthesisFailed
        THEN <<[original_record |-> r_rec, failing_stage |-> "finalize"]>> ELSE <<>>)

R_PassedStatus ==
    /\ r_rec.shape = "dict"
    /\ LET f == find_and_enrich(r_rec, r_env)
       IN /\ f.tag = "record"
          /\ f.rec.gd # "NOT_FOUND"
          /\ ~StatusRejected(f.rec.bs)

\* Neither the input nor the directory record names a website.
R_NoUsableUrl ==
    /\ R_PassedStatus
    /\ ~r_rec.web
    /\ ~find_and_enrich(r_rec, r_env).rec.gweb

\* A website exists and the scrape call (or the refinement) raised.
R_CrawlRaised ==
    /\ R_PassedStatus
    /\ ~R_NoUsableUrl
    /\ r_env.scrape = "raise"

\* C10 (as claimed; checked under SpecRecord): a record without a usable
\* website, or whose scrape call raised, is not dropped: it reaches final
\* synthesis with an empty crawl payload.
C10_CrawlFailureIsNotADrop ==
    (r_pc # "start" /\ (R_NoUsableUrl \/ R_CrawlRaised)) =>
        /\ r_res.ret = "record"
        /\ "finalize" \in r_res.calls
        /\ r_res.rec.sd = "absent"

\* C10 (amended; checked under SpecRecord): a record without a usable
\* website is dropped before research and crawl; a record whose scrape call
\* raised is dropped at the crawl; neither reaches final synthesis or the
\* output.
C10_CrawlFailureDrops ==
    (r_pc # "start" /\ (R_NoUsableUrl \/ R_CrawlRaised)) =>
        /\ r_res.ret = "None"
        /\ "finalize" \notin r_res.calls
        /\ R_NoUsableUrl => r_res.calls = {"identity"}
        /\ R_CrawlRaised => "crawl" \in r_res.calls
        /\ r_out = <<>>

C10_Witness ==
    /\ r_pc = "returned"
    /\ R_CrawlRaised
    /\ r_res.ret = "None"
    /\ r_out = <<>>

\* ---------------------------------------------------------------- C11
\* The record reached the status filter: identity resolution returned it and
\* it does not carry the NOT_FOUND marker.
R_ReachedStatus ==
    /\ r_rec.shape = "dict"
    /\ LET f == find_and_enrich(r_rec, r_env)
       IN f.tag = "record" /\ f.rec.gd # "NOT_FOUND"

\* The business_status the status filter reads.
R_DirectoryStatus == find_and_enrich(r_rec, r_env).rec.bs

\* C11 (as claimed; checked under SpecRecord): a record whose directory
\* status is missing or is anything but open (permanently closed,
\* temporarily closed) is dropped at the status filter: no research, crawl
\* or synthesis call is made for it and it is not written.
C11_OnlyOpenStatusPasses ==
    (r_pc # "start" /\ R_ReachedStatus /\ R_DirectoryStatus # "OPERATIONAL") =>
        /\ r_res.ret = "None"
        /\ r_res.calls = {"identity"}
        /\ r_out = <<>>

\* ---------------------------------------------------------------- C12
\* C12 (checked under SpecFair): an exception that leaves process_record
\* (its own handler raising included) ends in the except clause of
\* process_and_write.  That step changes neither the output, the written
\* count, the other threads nor main; the run goes on to its end unless the
\* process is interrupted; and when main has returned every index from
\* start_index on has finished and every record returned by process_record
\* has its line in the output.
C12_ExceptionDropsOnlyThatRecord ==
    /\ [][\A w \in Workers :
            (pc[w] = "except" /\ pc'[w] # "except" /\ pc_main' = "running") =>
                /\ output' = output
                /\ kept' = kept
                /\ written_count' = written_count
                /\ max_index_completed' = max_index_completed
                /\ fate'[cur[w]] = "raise"
                /\ \A v \in Workers \ {w} :
                      pc'[v] = pc[v] /\ cur'[v] = cur[v] /\ res'[v] = res[v]]_vars
    /\ [](pc_main = "done" =>
            \A i \in Indexes :
                /\ i >= start_index => fate[i] # "-"
                /\ fate[i] = "record" => LinesIn(output, i) = 1)
    /\ (pc_main = "running") ~> (pc_main # "running")

\* A run has ended in which one record raised and another was written.
C12_Witness ==
    /\ pc_main = "done"
    /\ \E i, j \in Indexes :
          /\ fate[i] = "raise"
          /\ fate[j] = "record"
          /\ LinesIn(output, j) = 1

\* ---------------------------------------------------------------- C13
\* C13 (checked under SpecCost): whenever no add is in progress, the
\* tracker's input and output totals of each step equal the sums of the
\* token counts reported by all calls of that step's collaborator, under any
\* interleaving of the threads: research under "gemini_search", final
\* synthesis under "gemini_finalizer".
C13_NoCostUpdateLost ==
    (\A w \in Workers : c_pc[w] = "idle") =>
        \A c \in Collaborators : cost_data[CostStep(c)] = c_usage[c]

\* Two threads have added tokens to the same step, one of them having
\* waited for the lock while the other was inside add.
C13_Contention ==
    \E w, v \in Workers :
        /\ w # v
        /\ c_pc[w] = "add_input"
        /\ c_pc[v] = "add"
        /\ c_arg[w].step = c_arg[v].step
        /\ c_arg[w].input > 0 /\ c_arg[v].input > 0

\* ---------------------------------------------------------------- C14
\* C14 (checked under SpecCrawl): when several workers crawl the same
\* domain over one content store, every manifest returned, and the
\* manifest left on disk once all have returned, holds the same set of
\* assets as a single crawl of the domain alone: no asset is missing
\* because another worker had already downloaded or deleted its file.
C14_ConcurrentCrawlHarmless ==
    /\ \A k \in Crawlers :
          k_pc[k] = "returned" =>
              AssetUrls(k_result[k].assets) = AssetUrls(SoloCrawl)
    /\ (\A k \in Crawlers : k_pc[k] = "returned") =>
          AssetUrls(json_load(disk_manifest).assets) = AssetUrls(SoloCrawl)

\* ---------------------------------------------------------------- C15
\* C15 (checked under SpecPlaces): when the workers that resolve the same
\* query have all returned and no remote call has failed, whatever the
\* interleaving, the cache entry of the query and the verdict every worker
\* returned are those of the same calls made one after the other.
C15_ConcurrentResolveAsInTurn ==
    (g_faults = 0 /\ \A w \in Workers : g_pc[w] = "returned") =>
        LET turn == ResolveInTurn(g_cache0, NumWorkers)
        IN /\ cache_file = turn.cache
           /\ \A w \in Workers : g_verdict[w] \in turn.verdicts

\* ---------------------------------------------------------------- C16
\* A manifest a crawl has written in full.
WrittenManifest(manifest) == manifest \notin {NoManifest, Truncated}

\* C16 (checked under SpecCrawl): a crawl of a domain called when the
\* content store holds the manifest an earlier crawl wrote returns that
\* same manifest at once, loads no page, downloads no asset, and leaves the
\* stored manifest and the stored files as they were.
C16_CrawlIdempotent ==
    [][\A k \in Crawlers :
          (k_pc[k] = "idle" /\ k_pc'[k] # "idle" /\ WrittenManifest(disk_manifest)) =>
              /\ k_pc'[k] = "returned"
              /\ \E j \in Crawlers \ {k} :
                    /\ k_pc[j] = "returned"
                    /\ k_loads[j] > 0
                    /\ k_result'[k] = k_result[j]
                    /\ json_dump(k_result[j]) = disk_manifest
              /\ k_loads'[k] = 0
              /\ k_downloads'[k] = 0
              /\ disk_manifest' = disk_manifest
              /\ disk_files' = disk_files]_vars

\* A second crawl has returned the manifest of a first crawl that loaded
\* pages and downloaded an asset.
C16_SecondCrawl ==
    \E k, j \in Crawlers :
        /\ k_pc[k] = "returned" /\ k_pc[j] = "returned"
        /\ WrittenManifest(k_before[k])
        /\ k_loads[k] = 0
        /\ k_loads[j] > 1 /\ k_downloads[j] > 0
        /\ k_result[k] = k_result[j]
        /\ k_result[k].assets_found > 0
        /\ disk_manifest = k_before[k]

\* ---------------------------------------------------------------- C17
\* C17 (checked under SpecCrawl): in every state of a crawl at most 15 URLs
\* are visited and every URL in the queue or visited has depth at most 3;
\* every page load attempted, failed ones included, is a visited URL; and
\* the manifest a crawl builds has pages_crawled equal to the number of
\* visited URLs.
C17_CrawlBounds ==
    \A k \in Crawlers :
        /\ Cardinality(visited_urls[k]) <= 15
        /\ \A i \in DOMAIN queue[k] : queue[k][i][2] <= 3
        /\ \A p \in k_depths[k] : p[2] <= 3
        /\ visited_urls[k] = {p[1] : p \in k_depths[k]}
        /\ k_loads[k] = Cardinality(visited_urls[k])
        /\ (k_pc[k] \in {"dump", "returned"} /\ ~WrittenManifest(k_before[k])) =>
              k_result[k].pages_crawled = Cardinality(visited_urls[k])

\* A crawl has returned that visited a page at depth 3, whose links it did
\* not queue, and a page that failed to load.
C17_DepthBoundHit ==
    \E k \in Crawlers :
        /\ k_pc[k] = "returned"
        /\ ~WrittenManifest(k_before[k])
        /\ \E p \in k_depths[k] :
              /\ p[2] = 3
              /\ SitePage(web_site, p[1].path).links # <<>>
        /\ \E u \in visited_urls[k] : u.path \in web_down
        /\ k_result[k].pages_crawled = Cardinality(visited_urls[k])
        /\ k_result[k].pages_crawled > 3

\* ---------------------------------------------------------------- C18
\* No two entries of a manifest share a source URL or a local path, and
\* assets_found is the number of entries.
ManifestUnique(result) ==
    /\ \A i, j \in DOMAIN result.assets :
          i # j => /\ result.assets[i].original_url # result.assets[j].original_url
                   /\ result.assets[i].local_path # result.assets[j].local_path
    /\ result.assets_found = Len(result.assets)

\* C18 (checked under SpecCrawl): every manifest a crawl builds, returns or
\* leaves on disk has no two assets with the same source URL and no two
\* with the same local path, also when an asset URL is found on several
\* crawled pages, and its assets_found is the length of its assets list.
C18_ManifestAssetsUnique ==
    /\ \A k \in Crawlers :
          k_pc[k] \in {"dump", "returned"} => ManifestUnique(k_result[k])
    /\ WrittenManifest(disk_manifest) => ManifestUnique(json_load(disk_manifest))

\* A crawl has returned that loaded two pages showing the same image and
\* saved the text of both: its manifest has the image once.
C18_SharedImage ==
    \E k \in Crawlers :
        /\ k_pc[k] = "returned"
        /\ k_loads[k] > 0
        /\ Cardinality({u \in visited_urls[k] :
                           \E i \in DOMAIN SitePage(web_site, u.path).images :
                               SitePage(web_site, u.path).images[i] = ImageX}) > 1
        /\ Cardinality({i \in DOMAIN k_result[k].assets :
                           k_result[k].assets[i].original_url = ImageX}) = 1
        /\ Cardinality({i \in DOMAIN k_result[k].assets :
                           k_result[k].assets[i].type = "text"}) > 1
        /\ json_dump(k_result[k]) = disk_manifest

\* ---------------------------------------------------------------- C19
\* The thresholds of the gate: an image of at least 10 KB, at least 200
\* pixels wide and high, with width/height between 0.33 and 3.0; a document
\* of at least 5 KB.
PassesGate(file, type) ==
    CASE type = "image" ->
           /\ file.size >= 10 * 1024
           /\ file.width >= 200 /\ file.height >= 200
           /\ 33 * file.height <= 100 * file.width
           /\ file.width <= 3 * file.height
      [] type = "pdf" -> file.size >= 5 * 1024
      [] OTHER -> TRUE

GatedManifest(result) ==
    \A i \in DOMAIN result.assets :
        result.assets[i].type \in {"image", "pdf"} =>
            /\ PassesGate(web_files[result.assets[i].original_url], result.assets[i].type)
            /\ _verify_asset(web_files[result.assets[i].original_url], result.assets[i].type)

QueuedLinks(k) ==
    {p \in {queue[k][i] : i \in DOMAIN queue[k]} \cup k_depths[k] : p[2] > 0}

\* C20 (checked under SpecCrawl): no link off the root's domain is ever
\* queued, no link matching a blocklist keyword is queued at any depth, a
\* link found on a page deeper than the root is queued only if it matches a
\* priority keyword, and every visited URL is on the root's domain.
C20_LinkExclusion ==
    \A k \in Crawlers :
        /\ \A p \in QueuedLinks(k) :
              /\ _get_domain(p[1]) = _get_domain(start_url)
              /\ KeywordsOfUrl(p[1]) \cap ignored_keywords = {}
              /\ p[2] > 1 => KeywordsOfUrl(p[1]) \cap priority_keywords # {}
        /\ \A u \in visited_urls[k] : _get_domain(u) = _get_domain(start_url)

\* A crawl of the deep site has returned: it followed priority links down
\* to depth 3 and the root's plain link, and left out the off-domain links,
\* the blocklisted links of the root and of a deeper page, and the plain
\* link of a deeper page.
C20_LinksFiltered ==
    \E k \in Crawlers :
        /\ k_pc[k] = "returned"
        /\ web_site = "deep" /\ web_down = {}
        /\ {u.path : u \in visited_urls[k]} =
              {<<>>, <<"about">>, <<"programs">>, <<"p01">>, <<"about", "team">>,
               <<"about", "team", "staff">>}
        /\ Cardinality(visited_urls[k]) = 7

\* ---------------------------------------------------------------- C21
\* C21 (checked under SpecPlaces): a call of find_and_enrich that finds a
\* NOT_FOUND marker in the cache returns None at once, makes no remote
\* lookup and leaves the cache entry and the image directory as they were;
\* and from the moment the entry is a NOT_FOUND marker it is only ever
\* replaced by a NOT_FOUND marker and no call returns a matched record.
C21_CacheFastFail ==
    /\ [][\A w \in Workers :
            (g_pc[w] = "idle" /\ g_pc'[w] # "idle" /\ cache_file.status = "NOT_FOUND") =>
                /\ g_pc'[w] = "returned"
                /\ g_verdict'[w] = ReturnNone
                /\ g_lookups'[w] = 0
                /\ cache_file' = cache_file
                /\ image_dir' = image_dir]_vars
    /\ [](cache_file.status = "NOT_FOUND" =>
            [](/\ cache_file.status \in {"NOT_FOUND", "empty"}
               /\ \A w \in Workers : g_verdict[w].google_data = NoEntry))

\* Every worker has returned None from a cached marker without a lookup,
\* for a query the directory would have matched.
C21_MarkerServed ==
    /\ g_place = "match"
    /\ g_cache0.status = "NOT_FOUND"
    /\ cache_file = g_cache0
    /\ \A w \in Workers :
          /\ g_pc[w] = "returned"
          /\ g_verdict[w] = ReturnNone
          /\ g_lookups[w] = 0

\* ---------------------------------------------------------------- C22
\* Matched, NotFound, or neither: the record returned as it was.
VerdictKind(verdict) ==
    CASE verdict.ret = "None" -> "NotFound"
      [] verdict.google_data.status = "OK" -> "Matched"
      [] OTHER -> "Unresolved"

\* C22 (checked under SpecPlaces): a call of find_and_enrich made after an
\* earlier call for the same query has returned (by another thread or
\* after a restart: only the cache directory is carried over) returns the
\* same verdict as that call, whatever the outcome of the earlier call.
C22_RepeatedCallSameVerdict ==
    \A w, v \in Workers :
        (g_pc[w] = "returned" /\ g_pc[v] = "returned" /\ w \in g_seen[v]) =>
            VerdictKind(g_verdict[v]) = VerdictKind(g_verdict[w])

\* ---------------------------------------------------------------- C23
\* C23 (checked under SpecMatch): a candidate is accepted only if its name
\* is similar to the record's and, whenever the record's declared address
\* and the candidate's address both start with a street number, the two
\* numbers are equal.
C23_DifferentStreetNumberRejected ==
    (m_pc = "done" /\ m_valid) =>
        /\ _are_names_similar(m_name, m_gname)
        /\ (StreetNumber(m_addr) # <<>> /\ StreetNumber(m_gaddr) # <<>>) =>
              StreetNumber(m_addr) = StreetNumber(m_gaddr)

\* ---------------------------------------------------------------- C24
\* C24 (checked under Spec): when main has returned after a completed run
\* the process has exited with status 0, and when it has returned because
\* the input file is missing the process has exited with a status other
\* than 0.
C24_ExitCodes ==
    /\ pc_main = "done" => exit_code = 0
    /\ pc_main = "no_input" => exit_code \notin {0, -1}

\* ---------------------------------------------------------------- C25
\* C25 (checked under SpecPlaces): a call of find_and_enrich that finds the
\* details of an earlier match in the cache validates them again.  When
\* they pass, it returns the record with the cached details at once,
\* without a remote lookup and without touching the cache; when they fail,
\* it makes no remote lookup either, returns None, and on its return the
\* cache entry is the NOT_FOUND marker with reason "mismatch_cached".
C25_CachedMatchRevalidated ==
    [][\A w \in Workers :
          /\ (g_pc[w] = "idle" /\ g_pc'[w] # "idle" /\ cache_file.status = "OK") =>
                IF cache_file.place = "match"
                THEN /\ g_pc'[w] = "returned"
                     /\ g_verdict'[w] = ReturnEnriched(cache_file)
                     /\ g_lookups'[w] = 0
                     /\ cache_file' = cache_file
                     /\ image_dir' = image_dir
                ELSE /\ g_pc'[w] = "open"
                     /\ g_entry'[w] = NotFound("mismatch_cached")
                     /\ g_verdict'[w] = ReturnNone
          /\ (g_entry[w].reason = "mismatch_cached" /\ g_pc[w] # "returned"
                /\ g_pc'[w] = "returned") =>
                /\ cache_file' = NotFound("mismatch_cached")
                /\ g_verdict'[w] = ReturnNone
                /\ g_lookups'[w] = 0]_vars

\* A call has replaced cached details that no longer pass the validation
\* by the marker and returned None, without a lookup.
C25_CachedMismatchReplaced ==
    \E w \in Workers :
        /\ g_cache0.status = "OK"
        /\ g_cache0.place = "mismatch"
        /\ g_pc[w] = "returned"
        /\ g_entry[w] = NotFound("mismatch_cached")
        /\ g_verdict[w] = ReturnNone
        /\ g_lookups[w] = 0
        /\ cache_file = NotFound("mismatch_cached")

\* ---------------------------------------------------------------- C26
\* C26 (checked under SpecPlaces): a call of find_and_enrich that started
\* from a cache miss has, when it returns, left an entry for the query in
\* the cache, the details of the match or a NOT_FOUND marker, and returns
\* the record with the details in the first case and None in the second.
C26_MissLeavesAnEntry ==
    [][\A w \in Workers :
          (/\ g_pc[w] \in {"search", "details", "dump"}
           /\ g_entry[w].reason # "mismatch_cached"
           /\ g_pc'[w] = "returned") =>
              /\ cache_file'.status \in {"OK", "NOT_FOUND"}
              /\ cache_file'.status = "OK" =>
                    g_verdict'[w] = ReturnEnriched(cache_file')
              /\ cache_file'.status = "NOT_FOUND" => g_verdict'[w] = ReturnNone]_vars

\* ---------------------------------------------------------------- C27
\* The on-domain http links of the page a crawler is on, normalised.
OnDomainLinks(k) ==
    LET links == SitePage(web_site, k_page[k][1].path).links
    IN {NormaliseLink(links[i]) :
          i \in {j \in DOMAIN links :
                    /\ links[j].scheme = "http"
                    /\ _get_domain(NormaliseLink(links[j])) = _get_domain(start_url)}}

\* How many times a URL is held by a crawl: once for each entry of the
\* queue and once if it has been visited.
TimesHeld(q, visited, link) ==
    Cardinality({i \in DOMAIN q : q[i][1] = link}) + (IF link \in visited THEN 1 ELSE 0)

\* Crawler k ends the pass of the loop for a page that was processed to its
\* end.
PageDone(k) ==
    /\ k_pc[k] = "assets"
    /\ k_todo[k] = <<>>
    /\ k_pc'[k] # "assets" \/ k_page'[k] # k_page[k]

\* C27 as stated (checked under SpecCrawl): when a page has been processed,
\* every on-domain link on it that matches a priority keyword has been
\* queued, and every on-domain link on the root page has been queued
\* exactly once.
C27_LinkInclusion ==
    [][\A k \in Crawlers :
          PageDone(k) =>
             \A link \in OnDomainLinks(k) :
                /\ IsPriority(link) =>
                      TimesHeld(queue'[k], visited_urls'[k], link) >= 1
                /\ k_page[k][2] = 0 =>
                      TimesHeld(queue'[k], visited_urls'[k], link) = 1]_vars

\* C27 amended (checked under SpecCrawl): when a page above the depth bound
\* has been processed, every on-domain link on it that matches no blocklist
\* keyword has been queued exactly once if the page is the root, and has
\* been queued if it matches a priority keyword.
C27_LinkInclusionUnlessBlocked ==
    [][\A k \in Crawlers :
          (PageDone(k) /\ k_page[k][2] < max_depth) =>
             \A link \in OnDomainLinks(k) :
                KeywordsOfUrl(link) \cap ignored_keywords = {} =>
                   /\ IsPriority(link) =>
                         TimesHeld(queue'[k], visited_urls'[k], link) >= 1
                   /\ k_page[k][2] = 0 =>
                         TimesHeld(queue'[k], visited_urls'[k], link) = 1]_vars

\* A crawl of the deep site has queued the plain link of the root and the
\* priority link found on a page of depth 2.
C27_PlainAndPriorityQueued ==
    \E k \in Crawlers :
        /\ web_site = "deep"
        /\ \E p, r \in QueuedLinks(k) :
              /\ p[1].path = <<"p01">> /\ p[2] = 1
              /\ r[1].path = <<"about", "team", "staff">> /\ r[2] = 3

\* ---------------------------------------------------------------- C28
\* The entries of a queue, as a set.
Queued(q) == {q[i] : i \in DOMAIN q}

\* C28 (checked under SpecCrawl): a crawl past the manifest check never
\* raises.  A page that fails to load, or whose processing fails while an
\* asset is verified or deleted, costs the crawl nothing but that page: the
\* assets collected so far and the queued pages are kept.  A failed
\* download leaves out that asset alone and the page goes on with its next
\* asset.  The loop ends only with the queue empty or max_pages visited,
\* and scrape returns only with the manifest of its result written.
C28_LocalFailuresContained ==
    /\ [][\A k \in Crawlers :
            Crawling(k) =>
               /\ k_pc'[k] \notin {"raised", "idle"}
               /\ (\/ visited_urls'[k] # visited_urls[k] /\ k_pc'[k] = "loop"
                   \/ k_pc[k] = "verify" /\ k_pc'[k] = "loop") =>
                      /\ collected_assets'[k] = collected_assets[k]
                      /\ \A p \in Queued(queue[k]) :
                            p \in Queued(queue'[k]) \/ p[1] \in visited_urls'[k]
               /\ (k_pc[k] = "download" /\ k_pc'[k] = "assets") =>
                      /\ collected_assets'[k] = collected_assets[k]
                      /\ k_todo'[k] = Tail(k_todo[k])
                      /\ queue'[k] = queue[k]
               /\ k_pc'[k] = "returned" => disk_manifest' = json_dump(k_result'[k])]_vars
    /\ [](\A k \in Crawlers :
            (k_pc[k] \in {"finish", "dump", "returned"} /\ k_loads[k] > 0) =>
                \/ queue[k] = <<>>
                \/ Cardinality(visited_urls[k]) >= max_pages)

\* A crawl of the deep site whose page /about failed to load has gone on to
\* the pages queued behind it and has returned a manifest.
C28_CrawlWentOn ==
    \E k \in Crawlers :
        /\ web_site = "deep" /\ web_down = {<<"about">>}
        /\ k_pc[k] = "returned"
        /\ {u.path : u \in visited_urls[k]} = {<<>>, <<"about">>, <<"programs">>, <<"p01">>}
        /\ k_result[k].pages_crawled = Cardinality(visited_urls[k])
        /\ disk_manifest = json_dump(k_result[k])

\* ---------------------------------------------------------------- C29
\* Crawler k pops a URL: one iteration of the while loop starts.
Iteration(k) ==
    /\ k_pc[k] = "loop" \/ (k_pc[k] = "assets" /\ k_todo[k] = <<>>)
    /\ queue'[k] # queue[k] \/ k_pc'[k] # k_pc[k] \/ k_page'[k] # k_page[k]
    /\ k_pc'[k] # "finish"

\* C29 (checked under SpecCrawlFair): every crawl that enters the loop
\* returns with its manifest written, whatever the link graph (with cycles,
\* with more pages than max_pages) and whichever pages fail; it loads at
\* most max_pages pages; and every iteration of the loop either takes an
\* already visited URL off the queue or adds a new URL to the visited set.
C29_EveryCrawlTerminates ==
    /\ \A k \in Crawlers :
          (k_pc[k] = "loop") ~>
              (k_pc[k] = "returned" /\ disk_manifest = json_dump(k_result[k]))
    /\ [](\A k \in Crawlers :
            /\ k_loads[k] <= max_pages
            /\ Cardinality(visited_urls[k]) <= max_pages)
    /\ [][\A k \in Crawlers :
            Iteration(k) =>
               LET q == QueueAfterPage(k) IN
               /\ q # <<>>
               /\ queue'[k] = Tail(q)
               /\ \/ Head(q)[1] \in visited_urls[k] /\ visited_urls'[k] = visited_urls[k]
                  \/ /\ Head(q)[1] \notin visited_urls[k]
                     /\ visited_urls'[k] = visited_urls[k] \cup {Head(q)[1]}]_vars

\* A crawl of the wide site has returned after max_pages page loads with
\* pages still queued.
C29_StoppedByPageBound ==
    \E k \in Crawlers :
        /\ web_site = "wide"
        /\ k_pc[k] = "returned"
        /\ k_loads[k] = max_pages
        /\ queue[k] # <<>>

\* ---------------------------------------------------------------- C30
\* The stages whose call has returned.
Returned(stage) == \A i \in DOMAIN t_stage : t_stage[i] # stage

\* C30 (checked under SpecRetry): for each of the two stages of a record,
\* at most MAX_RETRIES = 3 requests are made and none after a response; the
\* delays slept between consecutive requests are 1 s and then 2 s; a call
\* whose requests all failed has returned with the failure recorded in the
\* record for its caller; and once the call has returned its usage has been
\* given to cost_tracker.add exactly once, whatever the number of requests.
C30_BoundedRetry ==
    \A stage \in Stages :
        LET log == t_log[stage] IN
        /\ Len(log) <= 3
        /\ \A i \in DOMAIN log : log[i] = "ok" => i = Len(log)
        /\ t_delays[stage] \in {<<>>, <<1>>, <<1, 2>>}
        /\ Len(t_delays[stage]) \in {Len(log) - 1, Len(log)}
        /\ Len(t_added[stage]) <= 1
        /\ Returned(stage) =>
              /\ Len(t_added[stage]) = 1
              /\ (log # <<>> /\ log[Len(log)] = "fail") =>
                    /\ Len(log) = 3
                    /\ t_delays[stage] = <<1, 2>>
                    /\ t_field[stage] = CallFailed(stage)
                    /\ t_added[stage] = <<NoTokens>>
              /\ (log # <<>> /\ log[Len(log)] = "ok") =>
                    /\ Len(t_delays[stage]) = Len(log) - 1
                    /\ t_field[stage] \in {"ok", ParseFailed(stage)}

\* The research call has succeeded at its third request and its usage has
\* been recorded once; the final synthesis has failed three times.
C30_ThirdTimeAndExhausted ==
    /\ t_pc = "done"
    /\ t_log["research"] = <<"fail", "fail", "ok">>
    /\ t_delays["research"] = <<1, 2>>
    /\ t_added["research"] = <<[input |-> MaxTokens, output |-> MaxTokens]>>
    /\ t_log["finalize"] = <<"fail", "fail", "fail">>
    /\ t_field["finalize"] = "error_crash"
    /\ t_added["finalize"] = <<NoTokens>>

\* ---------------------------------------------------------------- C31
\* The persisted checkpoint: -1 without a decodable state file.
Checkpoint == IF l_state.kind \in {"missing", "undecodable", "no_key"} THEN -1 ELSE l_state.index

\* The first n elements of a sequence (all of it for n = 0 or n > Len).
UpTo(q, n) == IF n = 0 \/ n > Len(q) THEN q ELSE SubSeq(q, 1, n)

\* The indexes of the decodable lines of the input after index c, ascending.
DecodableAfter(c) ==
    SelectSeq([j \in 1 .. Len(l_lines) |-> j - 1],
              LAMBDA i : i > c /\ l_lines[i + 1] = "json")

C32_StoredImageWithinBounds ==
    i_listed =>
        /\ i_file.width <= 1000
        /\ i_file.width >= 200 /\ i_file.height >= 200
        /\ i_file.width <= 3 * i_file.height
        /\ 100 * i_file.width >= 33 * i_file.height

\* ---------------------------------------------------------------- C33
\* The candidates in discovery order: the paths of the input that exist
\* with more than 5000 bytes, each at its first place in the list.
Candidates ==
    SelectSeq([i \in DOMAIN n_paths |->
                  IF \E j \in 1 .. (i - 1) : n_paths[j] = n_paths[i] THEN "-" ELSE n_paths[i]],
              LAMBDA x : x \in n_good)

\* C33 (checked under SpecRank): rank_images returns at most top_n paths,
\* no path twice, each one of its input; and when the scoring fails it
\* returns the first top_n candidates in the order of the input list.
C33_RefinementFallback ==
    n_pc = "returned" =>
        /\ Len(n_result) <= n_top
        /\ \A i, j \in DOMAIN n_result : n_result[i] = n_result[j] => i = j
        /\ \A i \in DOMAIN n_result : \E j \in DOMAIN n_paths : n_paths[j] = n_result[i]
        /\ n_failed => n_result = FirstN(Candidates, n_top)

\* ---------------------------------------------------------------- C34
\* The number of records handed to the executor by the current run.
Submitted == IF start_index > NumRecords THEN 0 ELSE NumRecords - start_index

\* The indexes whose call of process_and_write has returned in this run.
Returned34 == {i \in Indexes : fate[i] # "-"}

\* C34 (checked under Spec): every record handed to the executor adds one
\* to the progress counter exactly once, whether its call of
\* process_and_write ends after a write, after a drop or in the except
\* clause: the counter equals the number of calls that have returned, it
\* never exceeds the number of submitted records, it moves only when a call
\* returns and then by one, and when the pool has drained it equals the
\* number of submitted records.
C34_CountedExactlyOnce ==
    /\ [](completed = Cardinality(Returned34))
    /\ [](pc_main \in {"running", "done"} => completed <= Submitted)
    /\ [](pc_main = "done" => completed = Submitted)
    /\ [][pc_main' = "running" /\ pc_main = "running" =>
            /\ \A w \in Workers :
                  (cur[w] # -1 /\ cur'[w] = -1) => completed' = completed + 1
            /\ completed' # completed =>
                  \E w \in Workers : cur[w] # -1 /\ cur'[w] = -1]_vars

\* A pool has drained after a record that ended in the except clause and a
\* record that was written or dropped, and both were counted.
C34_EveryEndingCounted ==
    /\ pc_main = "done"
    /\ \E i, j \in Indexes :
          fate[i] = "raise" /\ fate[j] \in {"record", "None"}
    /\ completed = Submitted
    /\ completed >= 2

\* ---------------------------------------------------------------- C35
\* C35 (as claimed; checked under SpecCost): every (input, output) pair the
\* progress reporter reads from the snapshot returned by get_snapshot is the
\* pair of totals the step held after a whole number of adds that had
\* returned, never the input of an add without its output, while workers
\* call add.
C35_SnapshotPairsWhole ==
    p_seen.step # "-" =>
        [input |-> p_seen.input, output |-> p_seen.output]
            \in cost_totals[p_seen.step]

\* ---------------------------------------------------------------- C36
\* The images and documents found on the pages crawl k has loaded that the
\* web serves and that pass verification.
FoundAndVerified(k) ==
    {a \in SiteAssets :
        /\ \E u \in visited_urls[k] :
              /\ u.path \notin web_down
              /\ \E i \in DOMAIN PageAssets(SitePage(web_site, u.path)) :
                    PageAssets(SitePage(web_site, u.path))[i] = a
        /\ web_files[a.src] # NoFile
        /\ _verify_asset(web_files[a.src], a.type)}

\* C36 (as claimed; checked under SpecRecrawl): a crawl called when the
\* domain has no manifest, and which no other call runs beside, returns a
\* manifest that lists every image and document found on a page it visited
\* whose download succeeds and whose file passes verification, also when
\* the file of the asset is already in the assets directory, left by an
\* earlier crawl that was interrupted before it wrote its manifest.
C36_VerifiedAssetsListed ==
    \A k \in Crawlers :
        (/\ k_pc[k] = "returned"
         /\ k_before[k] = NoManifest
         /\ \A j \in Crawlers \ {k} : k_pc[j] = "idle") =>
            \A a \in FoundAndVerified(k) : a.src \in AssetUrls(k_result[k].assets)

\* ---------------------------------------------------------------- C37
\* C37 (as claimed; checked under SpecRecrawl): the manifest every call of
\* scrape returns has as its root_url the URL the call was given, also when
\* another URL of the same domain (the same host with or without the
\* leading "www.") was crawled before.
C37_RootUrlIsRequested ==
    \A k \in Crawlers :
        k_pc[k] = "returned" => k_result[k].root_url = k_url[k]

\* ---------------------------------------------------------------- C38
\* The lines OUTPUT_FILE holds for index i: those of earlier runs and those
\* written by the current one.
FileLines(i) == kept[i] + LinesIn(output, i)

\* C38 (as claimed; checked under Spec): a start of main that ends without
\* processing a record, because the input file is missing or because no
\* record is left to process, leaves the output file and the checkpoint
\* file as they were, with --resume and without it.
C38_IdleStartupChangesNoFile ==
    [][(pc_main # "running" /\ pc_main' \in {"no_input", "done"}) =>
          /\ state_file' = state_file
          /\ \A i \in Indexes : FileLines(i)' = FileLines(i)]_vars

\* ---------------------------------------------------------------- C39
\* C39 (as claimed; checked under SpecLimit): _enforce_length_limit returns
\* a string no longer than max_length for every text, whichever branch cuts
\* it (sentence end, last space with an ellipsis, hard cut with an
\* ellipsis); a text no longer than max_length comes back unchanged and an
\* empty or missing text comes back as the empty string.
C39_LengthWithinLimit ==
    e_pc = "returned" =>
        /\ TextLen(e_result) <= e_max
        /\ (e_text.given /\ TextLen(e_text.runs) <= e_max) => e_result = e_text.runs
        /\ (~e_text.given \/ e_text.runs = <<>>) => e_result = <<>>

====
